---- MODULE Spec2Model ----
(***************************************************************************)
(* Resolution engine of consearch: the fallback orchestrator               *)
(* (resolution/chain.py) over the resolver contract (resolution/base.py).  *)
(*                                                                         *)
(* Spec      one ChainResolver.resolve call, from construction to return.  *)
(* LiveSpec  the same call with the event loop's fairness.                 *)
(* AggSpec   AggregatedResult.success / best_result on arbitrary results.  *)
(* RecIdSpec ChainResolver._get_record_id on arbitrary records.            *)
(* ResolverSpec   one resolver and its rate limiter shared by concurrent   *)
(*                callers of resolve(), with the clock.                    *)
(* SequentialSpec the same resolver called by one caller at a time.        *)
(* BackoffSpec    handle_429 along runs of consecutive 429 responses.      *)
(* ScoreSpec      reliability_score on arbitrary counters.                 *)
(* IsbnSpec       the ISBN-10 / ISBN-13 conversions on arbitrary strings.  *)
(* DetectSpec     IdentifierDetector.detect / detect_all on any query.     *)
(* ChainCallsSpec ChainResolver.resolve called repeatedly, calls overlapping*)
(* AcquireSpec    AsyncRateLimiter.acquire under fair scheduling, with     *)
(*                cancellation.                                            *)
(***************************************************************************)
EXTENDS Integers, Sequences, FiniteSets, TLC

(***************************************************************************)
(* Bounds of the model.                                                    *)
(***************************************************************************)
\* number of resolvers handed to ChainResolver.__init__
NumResolvers == 2
\* longest fallback_results list of a directly constructed AggregatedResult
MaxFallbacks == 2
\* coroutines that share one resolver
NumTasks == 2
\* resolve() calls made on that resolver in one run
MaxRequests == 3
\* the clock is advanced tick by tick up to this time; past it, it moves
\* from the end of one sleep to the end of the next
MaxTicks == 1
\* longest run of consecutive 429 responses handed to handle_429
MaxRun == 4
\* largest success_count / failure_count handed to reliability_score
MaxCount == 3
\* ChainResolver.resolve calls made on one chain in one run
MaxCalls == 2

(***************************************************************************)
(* Values.                                                                 *)
(***************************************************************************)
\* Python's None where a string is expected
NoneStr == "<None>"

\* truthiness of an optional string: None and "" are both falsy
Truthy(s) == s # NoneStr /\ s # ""

\* core/types.py SourceName, in declaration order
SourceNames ==
  <<"isbndb", "google_books", "open_library", "crossref",
    "semantic_scholar", "arxiv", "pubmed">>

\* core/types.py ResolutionStatus
ResolutionStatus == {"success", "not_found", "rate_limited", "error", "timeout"}

\* the input types the modelled calls use (core/types.py InputType)
InputTypes == {"isbn_13", "title"}

\* books/base.py and papers/base.py SUPPORTED_INPUT_TYPES
BookInputTypes == {"isbn_10", "isbn_13", "title"}
PaperInputTypes == {"doi", "arxiv", "title", "citation"}

\* FallbackConfig.min_reliability_score default, in thousandths
min_reliability_score == 500

\* AbstractResolver._BASE_RELIABILITY default, in hundredths
BASE_RELIABILITY == 80

\* priorities handed to the resolvers (isbndb/crossref 10, google_books 50)
Priorities == {10, 50}

(***************************************************************************)
(* Records (core/models.py BaseRecord with its Identifiers).               *)
(***************************************************************************)
Rec(doi, isbn_13, isbn_10, arxiv_id, title) ==
  [doi |-> doi, isbn_13 |-> isbn_13, isbn_10 |-> isbn_10,
   arxiv_id |-> arxiv_id, title |-> title]

\* str.lower() on the titles the model uses
Lower(s) ==
  CASE s = "Test Book Title"        -> "test book title"
    [] s = "TEST BOOK TITLE"        -> "test book title"
    [] s = "test book title"        -> "test book title"
    [] s = "Book from isbndb"       -> "book from isbndb"
    [] s = "Book from google_books" -> "book from google_books"
    [] s = "Test"                   -> "test"
    [] s = ""                       -> ""

\* ChainResolver._get_record_id with the DOI test last instead of first
get_record_id_isbn_first(record) ==
  IF Truthy(record.isbn_13) THEN "isbn:" \o record.isbn_13
  ELSE IF Truthy(record.isbn_10) THEN "isbn:" \o record.isbn_10
  ELSE IF Truthy(record.doi) THEN "doi:" \o record.doi
  ELSE IF Truthy(record.arxiv_id) THEN "arxiv:" \o record.arxiv_id
  ELSE "title:" \o Lower(record.title)

\* ChainResolver._get_record_id
get_record_id(record) ==
  IF Truthy(record.doi) THEN "doi:" \o record.doi
  ELSE IF Truthy(record.isbn_13) THEN "isbn:" \o record.isbn_13
  ELSE IF Truthy(record.isbn_10) THEN "isbn:" \o record.isbn_10
  ELSE IF Truthy(record.arxiv_id) THEN "arxiv:" \o record.arxiv_id
  ELSE "title:" \o Lower(record.title)

\* the records the modelled sources return: two sources' views of one book
\* (same ISBN-13, different titles) and a record that also carries a DOI
RecordUniverse ==
  { Rec(NoneStr, "9780134093413", NoneStr, NoneStr, "Book from isbndb"),
    Rec(NoneStr, "9780134093413", NoneStr, NoneStr, "Book from google_books"),
    Rec("10.1234/test", "9780134093413", NoneStr, NoneStr, "Test") }

\* the records lists a resolver's result carries: none, one record, or two
\* editions of the same book in one answer
RecordLists ==
  {<<>>} \cup {<<r>> : r \in RecordUniverse}
         \cup {<< Rec(NoneStr, "9780134093413", NoneStr, NoneStr, "Book from isbndb"),
                  Rec(NoneStr, "9780134093413", NoneStr, NoneStr, "Test") >>}

RECURSIVE SeqsUpTo(_, _)
\* all sequences over S of length at most n
SeqsUpTo(S, n) ==
  IF n = 0 THEN {<<>>}
  ELSE LET shorter == SeqsUpTo(S, n - 1) IN
       shorter \cup {Append(s, x) : s \in {t \in shorter : Len(t) = n - 1}, x \in S}

(***************************************************************************)
(* ResolutionResult (resolution/base.py).                                  *)
(***************************************************************************)
Result(status, records, error_message, source) ==
  [status |-> status, records |-> records,
   error_message |-> error_message, source |-> source]

\* None where a ResolutionResult is expected
NoResult == Result(NoneStr, <<>>, NoneStr, NoneStr)

\* ResolutionResult.success
ResultSuccess(r) == r.status = "success" /\ Len(r.records) > 0

(***************************************************************************)
(* AggregatedResult (resolution/chain.py).                                 *)
(***************************************************************************)
Aggregated(primary, fallbacks, records, sources) ==
  [primary_result |-> primary, fallback_results |-> fallbacks,
   all_records |-> records, sources_tried |-> sources]

\* AggregatedResult(), the dataclass defaults
EmptyAggregated == Aggregated(NoResult, <<>>, <<>>, <<>>)

\* AggregatedResult.success looking at the primary result only
success_primary_only(agg) ==
  agg.primary_result # NoResult /\ ResultSuccess(agg.primary_result)

\* AggregatedResult.success
success(agg) ==
  IF agg.primary_result # NoResult /\ ResultSuccess(agg.primary_result)
  THEN TRUE
  ELSE \E i \in 1..Len(agg.fallback_results) :
         ResultSuccess(agg.fallback_results[i])

\* the all_results list built by best_result and _aggregate_records
all_results(agg) ==
  (IF agg.primary_result # NoResult THEN <<agg.primary_result>> ELSE <<>>)
    \o agg.fallback_results

\* AggregatedResult.best_result
best_result(agg) ==
  LET successful == SelectSeq(all_results(agg), ResultSuccess) IN
  IF successful = <<>>
  THEN IF agg.primary_result # NoResult THEN agg.primary_result
       ELSE IF agg.fallback_results # <<>> THEN agg.fallback_results[1]
       ELSE NoResult
  ELSE successful[1]

RECURSIVE Flatten(_)
\* the records of a list of results, in the order the nested loops of
\* _aggregate_records visit them
Flatten(rs) ==
  IF rs = <<>> THEN <<>> ELSE Head(rs).records \o Flatten(Tail(rs))

\* one iteration of the inner loop of _aggregate_records, without the
\* membership test: every record is appended
aggregate_step_keep_all(acc, record) ==
  LET record_id == get_record_id(record) IN
  [seen_ids   |-> IF Truthy(record_id) THEN acc.seen_ids \cup {record_id}
                  ELSE acc.seen_ids,
   aggregated |-> Append(acc.aggregated, record)]

\* one iteration of the inner loop of _aggregate_records
aggregate_step(acc, record) ==
  LET record_id == get_record_id(record) IN
  IF Truthy(record_id) /\ record_id \in acc.seen_ids
  THEN acc
  ELSE [seen_ids   |-> IF Truthy(record_id) THEN acc.seen_ids \cup {record_id}
                       ELSE acc.seen_ids,
        aggregated |-> Append(acc.aggregated, record)]

RECURSIVE aggregate_loop(_, _)
\* the loops of _aggregate_records over the remaining records
aggregate_loop(acc, records) ==
  IF records = <<>> THEN acc
  ELSE aggregate_loop(aggregate_step(acc, Head(records)), Tail(records))

\* ChainResolver._aggregate_records
aggregate_records(agg) ==
  aggregate_loop([seen_ids |-> {}, aggregated |-> <<>>],
                 Flatten(all_results(agg))).aggregated

(***************************************************************************)
(* Resolvers (resolution/base.py AbstractResolver).                        *)
(***************************************************************************)
Resolver(source, priority, enabled, supported, s, f, latency) ==
  [source_name |-> source, priority |-> priority, enabled |-> enabled,
   SUPPORTED_INPUT_TYPES |-> supported,
   success_count |-> s, failure_count |-> f, total_latency_ms |-> latency]

Max(a, b) == IF a >= b THEN a ELSE b
Min(a, b) == IF a <= b THEN a ELSE b

\* reliability_score without the min(1.0, ...) around the latency factor
score_of_uncapped(base, s, f, latency) ==
  LET total == s + f
      floored == Max(latency, 100 * total)
  IN IF total = 0
     THEN [num |-> 10 * base, den |-> 1]
     ELSE [num |-> 4 * base * total * floored
                   + 400 * s * floored
                   + 200 * total * 5000 * total,
           den |-> total * floored]

\* AbstractResolver.reliability_score as the exact fraction num/den of
\* thousandths: 0.4*base + 0.4*success_rate + 0.2*latency_factor, for a
\* base in hundredths and the three counters
score_of(base, s, f, latency) ==
  LET total == s + f
      \* max(avg_latency, 100.0) * total
      floored == Max(latency, 100 * total)
  IN IF total = 0
     THEN [num |-> 10 * base, den |-> 1]
     ELSE [num |-> 4 * base * total * floored
                   + 400 * s * floored
                   + 200 * total * Min(floored, 5000 * total),
           den |-> total * floored]

\* reliability_score of a resolver whose class keeps the default base
reliability_score(r) ==
  score_of(BASE_RELIABILITY, r.success_count, r.failure_count,
           r.total_latency_ms)

\* AbstractResolver.supports
supports(r, input_type) == input_type \in r.SUPPORTED_INPUT_TYPES

\* the condition of _filter_resolvers without the reliability test
keeps_ignoring_reliability(r, input_type) ==
  r.enabled /\ supports(r, input_type)

\* the condition of the comprehension in _filter_resolvers
keeps(r, input_type) ==
  /\ r.enabled
  /\ supports(r, input_type)
  /\ reliability_score(r).num >= min_reliability_score * reliability_score(r).den

\* ChainResolver._filter_resolvers
filter_resolvers(rs, input_type) ==
  LET keep(r) == keeps(r, input_type) IN SelectSeq(rs, keep)

RECURSIVE insert_by_priority(_, _)
\* insert r behind every element whose priority is not larger (stable)
insert_by_priority(sorted_rs, r) ==
  IF sorted_rs = <<>> THEN <<r>>
  ELSE IF Head(sorted_rs).priority <= r.priority
       THEN <<Head(sorted_rs)>> \o insert_by_priority(Tail(sorted_rs), r)
       ELSE <<r>> \o sorted_rs

RECURSIVE sorted_stable(_)
\* sorted(resolvers, key=lambda r: r.priority), Python's stable sort
sorted_stable(rs) ==
  IF rs = <<>> THEN <<>>
  ELSE insert_by_priority(sorted_stable(SubSeq(rs, 1, Len(rs) - 1)), rs[Len(rs)])

\* ChainResolver.__init__: self._resolvers
init_resolvers(rs) == sorted_stable(rs)

\* a resolver's state when the chain is built: usable, disabled, of the
\* paper family (no ISBN support), or with one slow failure on record
Profiles == {"ok", "disabled", "paper", "unreliable"}

MakeResolver(i, priority, profile) ==
  Resolver(SourceNames[i], priority,
           profile # "disabled",
           IF profile = "paper" THEN PaperInputTypes ELSE BookInputTypes,
           0,
           IF profile = "unreliable" THEN 1 ELSE 0,
           IF profile = "unreliable" THEN 10000 ELSE 0)

\* the resolver lists a caller hands to ChainResolver.__init__
ResolverLists ==
  { [i \in 1..NumResolvers |-> MakeResolver(i, p[i], f[i])] :
      p \in [1..NumResolvers -> Priorities],
      f \in [1..NumResolvers -> Profiles] }

(***************************************************************************)
(* What a resolver's resolve() does once it has been awaited.              *)
(***************************************************************************)
\* the message a resolver attaches to a result of the given status
MessageOf(status) ==
  CASE status = "success"      -> NoneStr
    [] status = "not_found"    -> NoneStr
    [] status = "rate_limited" -> "Rate limit exceeded"
    [] status = "error"        -> "HTTP error"
    [] status = "timeout"      -> "Request timed out"

\* resolve() returns a ResolutionResult, or raises an exception
Outcomes ==
  { [kind |-> "return", status |-> "success", records |-> rl,
     message |-> MessageOf("success")] : rl \in RecordLists }
  \cup
  { [kind |-> "return", status |-> st, records |-> <<>>,
     message |-> MessageOf(st)] : st \in ResolutionStatus \ {"success"} }
  \cup
  { [kind |-> "raise", status |-> NoneStr, records |-> <<>>,
     message |-> "boom"] }

\* ChainResolver._try_resolver letting the exception through: nothing is
\* returned for the resolver
try_resolver_no_catch(resolver, outcome) ==
  IF outcome.kind = "raise" THEN NoResult
  ELSE Result(outcome.status, outcome.records, outcome.message,
              resolver.source_name)

\* ChainResolver._try_resolver
try_resolver(resolver, outcome) ==
  IF outcome.kind = "raise"
  THEN Result("error", <<>>, outcome.message, resolver.source_name)
  ELSE Result(outcome.status, outcome.records, outcome.message,
              resolver.source_name)

(***************************************************************************)
(* ISBN value object (core/identifiers.py) and the standalone conversions  *)
(* (core/normalization.py).  A string is a sequence of one-character       *)
(* strings.                                                                *)
(***************************************************************************)
\* the decimal digits, by value
Digits == <<"0", "1", "2", "3", "4", "5", "6", "7", "8", "9">>

\* c matches [0-9]
IsDigit(c) == \E d \in 0..9 : Digits[d + 1] = c

\* Python's int(c) on one digit
int(c) == CHOOSE d \in 0..9 : Digits[d + 1] = c

\* Python's str(d) on 0..9
str(d) == Digits[d + 1]

\* sum of the first n elements of a sequence of numbers
RECURSIVE SumOver(_, _)
SumOver(f, n) == IF n = 0 THEN 0 ELSE f[n] + SumOver(f, n - 1)

\* re.sub(r"[-\s]", "", v).upper() on the characters the model uses
strip_upper(v) ==
  LET kept == SelectSeq(v, LAMBDA c : c \notin {"-", " "})
  IN [i \in 1..Len(kept) |-> IF kept[i] = "x" THEN "X" ELSE kept[i]]

\* re.sub(r"[-\s]", "", v) alone
strip(v) == SelectSeq(v, LAMBDA c : c \notin {"-", " "})

\* ^[0-9]{9}[0-9X]$
ISBN10_PATTERN(v) ==
  /\ Len(v) = 10
  /\ \A i \in 1..9 : IsDigit(v[i])
  /\ IsDigit(v[10]) \/ v[10] = "X"

\* ^(978|979)[0-9]{10}$
ISBN13_PATTERN(v) ==
  /\ Len(v) = 13
  /\ SubSeq(v, 1, 3) \in {<<"9", "7", "8">>, <<"9", "7", "9">>}
  /\ \A i \in 4..13 : IsDigit(v[i])

\* ISBN._validate_isbn10_checksum: weights 10..1, X counts ten, modulo 11
validate_isbn10_checksum(v) ==
  SumOver([i \in 1..Len(v) |->
             (IF v[i] = "X" THEN 10 ELSE int(v[i])) * (11 - i)], Len(v)) % 11 = 0

\* the alternating 1/3 weighted sum both ISBN-13 routines compute
isbn13_total(v) ==
  SumOver([i \in 1..Len(v) |-> int(v[i]) * (IF i % 2 = 1 THEN 1 ELSE 3)], Len(v))

\* ISBN._validate_isbn13_checksum
validate_isbn13_checksum(v) == isbn13_total(v) % 10 = 0

\* ISBN._calculate_isbn13_checksum
calculate_isbn13_checksum(base) == (10 - (isbn13_total(base) % 10)) % 10

\* the ISBN-10 check character written as a digit even when it is ten
calculate_isbn10_checksum_no_x(base) ==
  LET total == SumOver([i \in 1..Len(base) |-> int(base[i]) * (11 - i)], Len(base))
  IN str(((11 - (total % 11)) % 11) % 10)

\* ISBN._calculate_isbn10_checksum
calculate_isbn10_checksum(base) ==
  LET total == SumOver([i \in 1..Len(base) |-> int(base[i]) * (11 - i)], Len(base))
      checksum == (11 - (total % 11)) % 11
  IN IF checksum = 10 THEN "X" ELSE str(checksum)

\* a raised ValueError, and None, where an ISBN object is expected
ValueError == [error |-> "ValueError"]
NoISBN == [error |-> "None"]

\* ISBN(value=v, format=format): normalize_isbn, then validate_isbn_format
ISBN(v, format) ==
  LET value == strip_upper(v) IN
    IF format = "isbn10"
    THEN IF ISBN10_PATTERN(value) /\ validate_isbn10_checksum(value)
         THEN [value |-> value, format |-> format] ELSE ValueError
    ELSE IF ISBN13_PATTERN(value) /\ validate_isbn13_checksum(value)
         THEN [value |-> value, format |-> format] ELSE ValueError

\* ISBN.parse: the format is chosen by the normalized length
ISBN_parse(v) ==
  LET normalized == strip_upper(v) IN
    IF Len(normalized) = 10 THEN ISBN(normalized, "isbn10")
    ELSE IF Len(normalized) = 13 THEN ISBN(normalized, "isbn13")
    ELSE ValueError

\* ISBN.to_isbn13
to_isbn13(isbn) ==
  IF isbn.format = "isbn13" THEN isbn
  ELSE LET base == <<"9", "7", "8">> \o SubSeq(isbn.value, 1, Len(isbn.value) - 1)
       IN ISBN(Append(base, str(calculate_isbn13_checksum(base))), "isbn13")

\* a to_isbn10 that converts whatever the prefix is
to_isbn10_any_prefix(isbn) ==
  IF isbn.format = "isbn10" THEN isbn
  ELSE LET base == SubSeq(isbn.value, 4, Len(isbn.value) - 1)
       IN ISBN(Append(base, calculate_isbn10_checksum(base)), "isbn10")

\* ISBN.to_isbn10
to_isbn10(isbn) ==
  IF isbn.format = "isbn10" THEN isbn
  ELSE IF SubSeq(isbn.value, 1, 3) # <<"9", "7", "8">> THEN NoISBN
  ELSE LET base == SubSeq(isbn.value, 4, Len(isbn.value) - 1)
       IN ISBN(Append(base, calculate_isbn10_checksum(base)), "isbn10")

\* ISBN.__hash__: the hash of the ISBN-13 value; a string's hash is
\* taken as the string itself (equal strings, equal hashes)
ISBN_hash(isbn) == to_isbn13(isbn).value

\* a == b on two ISBN objects: the class defines no __eq__, so it is the
\* one of pydantic's BaseModel, which compares the fields value and format
ISBN_eq(a, b) == a.value = b.value /\ a.format = b.format

\* the entries of the set {a, b}: b is a second entry unless it has the
\* hash of a and compares equal to it
set_of_two(a, b) ==
  IF ISBN_hash(a) = ISBN_hash(b) /\ ISBN_eq(a, b) THEN <<a>> ELSE <<a, b>>

\* what the standalone conversions hand back instead of a string
RaisedValueError == <<"<ValueError>">>
NoneValue == <<"<None>">>

\* normalization.isbn_10_to_13; int() raises on anything but a digit
isbn_10_to_13(s) ==
  LET isbn10 == strip_upper(s)
      base == <<"9", "7", "8">> \o SubSeq(isbn10, 1, 9)
  IN IF Len(isbn10) # 10 THEN RaisedValueError
     ELSE IF \E i \in 1..Len(base) : ~IsDigit(base[i]) THEN RaisedValueError
     ELSE Append(base, str((10 - (isbn13_total(base) % 10)) % 10))

\* normalization.isbn_13_to_10
isbn_13_to_10(s) ==
  LET isbn13 == strip(s)
      base == SubSeq(isbn13, 4, Len(isbn13) - 1)
      total == SumOver([i \in 1..Len(base) |-> int(base[i]) * (11 - i)], Len(base))
      check == (11 - (total % 11)) % 11
  IN IF Len(isbn13) # 13 \/ SubSeq(isbn13, 1, 3) # <<"9", "7", "8">> THEN NoneValue
     ELSE IF \E i \in 1..Len(base) : ~IsDigit(base[i]) THEN RaisedValueError
     ELSE Append(base, IF check = 10 THEN "X" ELSE str(check))

(***************************************************************************)
(* DOI and ArXivID value objects (core/identifiers.py), on strings written *)
(* as sequences of one-character strings.                                  *)
(***************************************************************************)
\* str.strip(): spaces off both ends
RECURSIVE str_strip(_)
str_strip(v) ==
  IF v # <<>> /\ v[1] = " " THEN str_strip(Tail(v))
  ELSE IF v # <<>> /\ v[Len(v)] = " " THEN str_strip(SubSeq(v, 1, Len(v) - 1))
  ELSE v

\* str.lower() on the letters the modelled queries use
lower_char(c) ==
  CASE c = "D" -> "d" [] c = "O" -> "o" [] c = "I" -> "i" [] c = "H" -> "h"
    [] c = "E" -> "e" [] c = "P" -> "p" [] c = "T" -> "t" [] c = "X" -> "x"
    [] OTHER -> c

\* c matches [a-z-]
IsArchiveChar(c) ==
  c \in {"a", "d", "e", "h", "i", "l", "n", "o", "p", "t", "v", "x", "-"}

\* DOI.normalize_doi on queries that are not doi.org URLs: strip, then
\* drop a "doi:" prefix
normalize_doi(v) ==
  LET s == str_strip(v) IN
    IF Len(s) >= 4
       /\ [i \in 1..4 |-> lower_char(s[i])] = <<"d", "o", "i", ":">>
    THEN str_strip(SubSeq(s, 5, Len(s)))
    ELSE s

\* 10\.\d{4,}(?:\.\d+)* matched against the whole of h
DOI_registrant(h) ==
  /\ Len(h) >= 7
  /\ SubSeq(h, 1, 3) = <<"1", "0", ".">>
  /\ \A i \in 4..7 : IsDigit(h[i])
  /\ \A i \in 4..Len(h) : IsDigit(h[i]) \/ h[i] = "."
  /\ h[Len(h)] # "."
  /\ \A i \in 4..(Len(h) - 1) : ~(h[i] = "." /\ h[i + 1] = ".")

\* DOI_PATTERN ^10\.\d{4,}(?:\.\d+)*/[^\s]+$
DOI_PATTERN(v) ==
  \E p \in 1..(Len(v) - 1) :
    /\ v[p] = "/"
    /\ DOI_registrant(SubSeq(v, 1, p - 1))
    /\ \A i \in (p + 1)..Len(v) : v[i] # " "

\* DOI(value=v): the value, or ValueError
DOI(v) ==
  LET value == normalize_doi(v) IN
    IF DOI_PATTERN(value) THEN [value |-> value] ELSE ValueError

\* OLD_PATTERN ^[a-z-]+/\d{7}$
OLD_PATTERN(v) ==
  /\ Len(v) >= 9
  /\ v[Len(v) - 7] = "/"
  /\ \A i \in 1..(Len(v) - 8) : IsArchiveChar(v[i])
  /\ \A i \in (Len(v) - 6)..Len(v) : IsDigit(v[i])

\* NEW_PATTERN ^\d{4}\.\d{4,5}(v\d+)?$
NEW_PATTERN(v) ==
  \E n \in {9, 10} :
    /\ Len(v) >= n
    /\ \A i \in 1..4 : IsDigit(v[i])
    /\ v[5] = "."
    /\ \A i \in 6..n : IsDigit(v[i])
    /\ \/ Len(v) = n
       \/ /\ Len(v) >= n + 2
          /\ v[n + 1] = "v"
          /\ \A i \in (n + 2)..Len(v) : IsDigit(v[i])

\* ArXivID.parse on queries that are not arxiv.org URLs: a "/" selects the
\* old format, whose value is lowercased
ArXivID_parse(v) ==
  LET normalized == str_strip(v) IN
    IF \E i \in 1..Len(normalized) : normalized[i] = "/"
    THEN LET value == [i \in 1..Len(normalized) |-> lower_char(normalized[i])]
         IN IF OLD_PATTERN(value) THEN [value |-> value, format |-> "old"]
            ELSE ValueError
    ELSE IF NEW_PATTERN(normalized) THEN [value |-> normalized, format |-> "new"]
         ELSE ValueError

(***************************************************************************)
(* Rate limiter values (resolution/base.py).  Time is counted in ticks of  *)
(* half a second; rates and factors, which are floats in the code, are    *)
(* kept in tenths.                                                         *)
(***************************************************************************)
\* n seconds of time.monotonic(), in ticks
Seconds(n) == 2 * n

\* RateLimitConfig; requests_per_minute 0 stands for None
RateLimitConfig(rps, rpm, burst, retry, maxr, factor) ==
  [requests_per_second |-> rps, requests_per_minute |-> rpm,
   burst_size |-> burst, retry_on_429 |-> retry,
   max_429_retries |-> maxr, backoff_factor |-> factor]

\* RateLimitConfig(): the defaults of the dataclass
DefaultRateLimit == RateLimitConfig(10, 0, 1, TRUE, 3, 20)

\* the configurations the shared resolver is constructed with: the
\* defaults with a single retry, the tests' retry_on_429=False, a
\* fractional rate with a burst of two, and two requests per second under
\* a per-minute ceiling
RateLimitConfigs ==
  { RateLimitConfig(10, 0, 1, TRUE, 1, 20),
    RateLimitConfig(10, 0, 1, FALSE, 3, 20),
    RateLimitConfig(15, 0, 2, FALSE, 3, 15),
    RateLimitConfig(20, 10, 2, FALSE, 3, 10) }

\* AsyncRateLimiter after __init__: an empty RateLimitState, the burst
\* semaphore (permits left) and the lock (holding task, 0 when free)
AsyncRateLimiter(cfg) ==
  [request_times |-> <<>>, retry_after_until |-> 0, consecutive_429s |-> 0,
   permits |-> cfg.burst_size, lock |-> 0]

\* _cleanup_old_requests: popleft while the oldest is over a minute old
RECURSIVE cleanup_old_requests(_, _)
cleanup_old_requests(times, t) ==
  IF times # <<>> /\ times[1] < t - Seconds(60)
  THEN cleanup_old_requests(Tail(times), t)
  ELSE times

\* one window of _wait_for_permit: 0 when the limit is unset or not
\* reached, otherwise the time until the oldest request leaves the window
window_wait(times, t, limit, window) ==
  LET recent == SelectSeq(times, LAMBDA x : x > t - window)
  IN IF limit # 0 /\ 10 * Len(recent) >= limit
     THEN recent[1] + window - t
     ELSE 0

\* _wait_for_permit lines 97-115: the longer of the two windows' waits
permit_wait(cfg, times, t) ==
  Max(Max(0, window_wait(times, t, cfg.requests_per_second, Seconds(1))),
      window_wait(times, t, cfg.requests_per_minute, Seconds(60)))

\* integer power
RECURSIVE Pow(_, _)
Pow(b, e) == IF e = 0 THEN 1 ELSE b * Pow(b, e - 1)

\* the exponential wait without the 300 second ceiling
exponential_backoff_uncapped(cfg, n) ==
  (Seconds(60) * Pow(cfg.backoff_factor, n - 1)) \div Pow(10, n - 1)

\* handle_429 lines 138-141: min(60.0 * backoff_factor ** (n - 1), 300.0),
\* rounded down to a tick
exponential_backoff(cfg, n) ==
  Min((Seconds(60) * Pow(cfg.backoff_factor, n - 1)) \div Pow(10, n - 1),
      Seconds(300))

\* handle_429 lines 134-141: the wait for the n-th consecutive 429;
\* retry_after 0 is None (and 0.0 is falsy as well)
backoff(cfg, n, retry_after) ==
  IF retry_after # 0 THEN retry_after ELSE exponential_backoff(cfg, n)

\* handle_429: count the 429 and set the blocked-until time
handle_429(l, cfg, retry_after, t) ==
  LET n == l.consecutive_429s + 1 IN
    [l EXCEPT !.consecutive_429s = n,
              !.retry_after_until = t + backoff(cfg, n, retry_after)]

\* a reset that leaves the counter where it stands
reset_429_state_keeping(l) == l

\* reset_429_state
reset_429_state(l) == [l EXCEPT !.consecutive_429s = 0]

\* a retry decision that lets the counter reach the limit and one more
should_retry_429_once_more(l, cfg) ==
  cfg.retry_on_429 /\ l.consecutive_429s <= cfg.max_429_retries

\* should_retry_429
should_retry_429(l, cfg) ==
  cfg.retry_on_429 /\ l.consecutive_429s < cfg.max_429_retries

(***************************************************************************)
(* State of one ChainResolver and of one resolve() call on it.             *)
(***************************************************************************)
VARIABLES
  resolvers,     \* ChainResolver._resolvers
  config,        \* ChainResolver.config (FallbackConfig)
  pc,            \* where the resolve() coroutine stands
  input_type,    \* argument of resolve()
  active,        \* active_resolvers of resolve()
  results,       \* the results list of _run_sequential / of gather
  task_results,  \* parallel mode: result of each finished _try_resolver task
  running,       \* positions in active whose resolve() is being awaited
  result,        \* the AggregatedResult resolve() builds and returns
  invoked,       \* history: resolvers whose resolve() was called, in order
  returned,      \* history: results the resolvers handed back, in order
  did,           \* history: what each resolve() did (Outcomes), same order
  completed,     \* history: positions in active, in completion order
  timed_out,     \* history: asyncio.timeout expired
  arg,           \* argument of the function applied by AggSpec / RecIdSpec
  ret,           \* what that function returned
  now,           \* time.monotonic(), in ticks
  rate_limit,    \* the resolver's RateLimitConfig
  limiter,       \* its AsyncRateLimiter: RateLimitState, semaphore, lock
  stats,         \* _success_count, _failure_count, _total_latency_ms
  task,          \* where each coroutine calling the resolver stands
  trace          \* what the last step of a coroutine did: the call made,
                 \* the result handed back, the backoff started, the permit

resolverVars == <<now, rate_limit, limiter, stats, task, trace>>

vars ==
  <<resolvers, config, pc, input_type, active, results, task_results,
    running, result, invoked, returned, did, completed, timed_out, arg, ret, resolverVars>>

callVars ==
  <<resolvers, config, pc, input_type, active, results, task_results,
    running, result, invoked, returned, did, completed, timed_out>>

\* FallbackConfig: the two switches the execution depends on
Configs == [stop_on_first_success : BOOLEAN, parallel_execution : BOOLEAN]

\* nothing has been applied by the function harness
NoCall == [op |-> "none"]

(***************************************************************************)
(* ResolverSpec: one concrete resolver (AbstractResolver with the          *)
(* search_by_isbn of OpenLibraryResolver and the search_by_doi of          *)
(* CrossrefResolver, which have the same shape) shared by NumTasks         *)
(* coroutines that call resolve() on it while the clock advances.          *)
(***************************************************************************)
Tasks == 1..NumTasks

\* a coroutine that is not inside resolve(); wake is the end of the sleep
\* it is in (0 when in none), wait_time the local of _make_request, unbound
\* until the first handle_429
IdleTask ==
  [pc |-> "idle", wake |-> 0, start |-> 0, has_wait_time |-> FALSE,
   wait_time |-> 0, sends |-> 0]

\* history: the number of calls made so far and what the last step did:
\* the query resolve() was called with and the resolver's state before the
\* call, the result handed back to a caller and the exception
\* _make_request raised on the way, the backoff handle_429 computed,
\* whether a request timestamp was recorded, whether a request was sent
NoTrace ==
  [calls |-> 0,
   called |-> [input_type |-> NoneStr, query |-> NoneStr],
   before |-> <<>>,
   handed |-> [result |-> NoResult, cause |-> "none", sends |-> 0],
   raised |-> [type |-> "none", retry_after |-> 0],
   backoff |-> [n |-> 0, wait |-> 0, retry_after |-> 0],
   permit |-> FALSE,
   sent |-> FALSE]

\* the counters after AbstractResolver.__init__
NoStats == [success_count |-> 0, failure_count |-> 0, total_latency_ms |-> 0]

\* a freshly constructed resolver with the given rate limit configuration
NewResolver(cfg) ==
  /\ now = 0
  /\ rate_limit = cfg
  /\ limiter = AsyncRateLimiter(cfg)
  /\ stats = NoStats
  /\ task = [k \in Tasks |-> IdleTask]
  /\ trace = NoTrace

\* the resolver variables of the specifications that call no resolver
NoRequests == NewResolver(DefaultRateLimit)

\* a string as the sequence of its characters (the strings below only)
Chars(s) ==
  CASE s = "9780134093413" -> <<"9","7","8","0","1","3","4","0","9","3","4","1","3">>
    [] s = "080442957X" -> <<"0","8","0","4","4","2","9","5","7","X">>
    [] s = "0-13-409341-0" -> <<"0","-","1","3","-","4","0","9","3","4","1","-","0">>
    [] s = "0134093411" -> <<"0","1","3","4","0","9","3","4","1","1">>
    [] s = "12345" -> <<"1","2","3","4","5">>
    [] s = "10.1038/nature12373" ->
         <<"1","0",".","1","0","3","8","/","n","a","t","u","r","e","1","2","3","7","3">>
    [] s = "doi:10.1038/nature12373" ->
         <<"d","o","i",":","1","0",".","1","0","3","8","/","n","a","t","u","r","e",
           "1","2","3","7","3">>
    [] s = "10.12/short" -> <<"1","0",".","1","2","/","s","h","o","r","t">>
    [] s = "not-a-doi" -> <<"n","o","t","-","a","-","d","o","i">>
    [] s = "2301.12345v2" -> <<"2","3","0","1",".","1","2","3","4","5","v","2">>
    [] s = "hep-th/9901001" ->
         <<"h","e","p","-","t","h","/","9","9","0","1","0","0","1">>
    [] s = "2301.123" -> <<"2","3","0","1",".","1","2","3">>
    [] s = "invalid" -> <<"i","n","v","a","l","i","d">>

\* the (query, input_type) pairs resolve() is called with
Queries ==
  [input_type : {"isbn_10", "isbn_13"},
   query : {"9780134093413", "080442957X", "0-13-409341-0", "0134093411", "12345"}]
  \cup [input_type : {"doi"},
        query : {"10.1038/nature12373", "doi:10.1038/nature12373",
                 "10.12/short", "not-a-doi"}]
  \cup [input_type : {"arxiv"},
        query : {"2301.12345v2", "hep-th/9901001", "2301.123", "invalid"}]

\* a resolve() that hands every query on as it is
parse_query_unchecked(q) ==
  [value |-> Chars(q.query), format |-> q.input_type]

\* AbstractBookResolver.resolve / AbstractPaperResolver.resolve: what the
\* query is parsed into before any search_by_* is called
parse_query(q) ==
  CASE q.input_type \in {"isbn_10", "isbn_13"} -> ISBN_parse(Chars(q.query))
    [] q.input_type = "doi" -> DOI(Chars(q.query))
    [] q.input_type = "arxiv" -> ArXivID_parse(Chars(q.query))

\* the ERROR result of resolve() for a query that does not parse
invalid_query_result(q) ==
  Result("error", <<>>,
         CASE q.input_type \in {"isbn_10", "isbn_13"} -> "Invalid ISBN"
           [] q.input_type = "doi" -> "Invalid DOI"
           [] q.input_type = "arxiv" -> "Invalid arXiv ID",
         SourceNames[3])

\* AbstractPaperResolver.search_by_arxiv, which sends nothing
search_by_arxiv ==
  Result("not_found", <<>>, "arXiv search not supported by this resolver",
         SourceNames[3])

\* what the server does with one request: a response with its status (and
\* Retry-After in ticks, 0 when the header is absent; found: the body
\* parses into a record), or status 0 when the transport fails
Responses ==
  [status : {200}, retry_after : {0}, found : BOOLEAN]
  \cup [status : {404, 500, 0}, retry_after : {0}, found : {FALSE}]
  \cup [status : {429}, retry_after : {0, Seconds(1)}, found : {FALSE}]

\* _make_request lines 298-304 after a response that is not a 429
track_metrics(s, r, duration_ms) ==
  [s EXCEPT !.total_latency_ms = @ + duration_ms,
            !.success_count = IF r.status = 200 THEN @ + 1 ELSE @,
            !.failure_count = IF r.status = 200 THEN @ ELSE @ + 1]

\* _record_failure
record_failure(s) == [s EXCEPT !.failure_count = @ + 1]

\* search_by_isbn / search_by_doi once _make_request has returned r
search_result(r) ==
  IF r.status = 404 THEN Result("not_found", <<>>, NoneStr, SourceNames[3])
  ELSE IF r.status # 200
  THEN Result("error", <<>>, "Server error", SourceNames[3])
  ELSE IF r.found
  THEN Result("success",
              <<Rec(NoneStr, "9780134093413", NoneStr, NoneStr, "Test")>>,
              NoneStr, SourceNames[3])
  ELSE Result("not_found", <<>>, NoneStr, SourceNames[3])

\* the state after ChainResolver.__init__, before resolve() is called
InitCall ==
  /\ \E rs \in ResolverLists : resolvers = init_resolvers(rs)
  /\ config \in Configs
  /\ pc = "idle"
  /\ input_type = NoneStr
  /\ active = <<>>
  /\ results = <<>>
  /\ task_results = <<>>
  /\ running = {}
  /\ result = EmptyAggregated
  /\ invoked = <<>>
  /\ returned = <<>>
  /\ did = <<>>
  /\ completed = <<>>
  /\ timed_out = FALSE

Init == InitCall /\ NoRequests /\ arg = NoCall /\ ret = NoCall

\* resolve() lines 109-119 and 125: the results become primary/fallbacks,
\* sources_tried and the deduplicated all_records
Collect(agg, rs) ==
  LET filled == [agg EXCEPT
                   !.primary_result = IF rs # <<>> THEN rs[1] ELSE @,
                   !.fallback_results = IF rs # <<>> THEN Tail(rs) ELSE @,
                   !.sources_tried = [i \in 1..Len(rs) |-> rs[i].source]]
  IN [filled EXCEPT !.all_records = aggregate_records(filled)]

\* resolve() is called: filter, return at once when nothing is left,
\* otherwise enter the timeout block and pick the execution mode
Resolve(it) ==
  /\ pc = "idle"
  /\ input_type' = it
  /\ active' = filter_resolvers(resolvers, it)
  /\ IF active' = <<>>
     THEN /\ pc' = "done"
          /\ UNCHANGED <<running, invoked, task_results>>
     ELSE IF config.parallel_execution /\ ~config.stop_on_first_success
     THEN \* _run_parallel: one _try_resolver per resolver handed to gather
          /\ pc' = "gather"
          /\ running' = 1..Len(active')
          /\ invoked' = active'
          /\ task_results' = [i \in 1..Len(active') |-> NoResult]
     ELSE /\ pc' = "seq_next"
          /\ UNCHANGED <<running, invoked, task_results>>
  /\ UNCHANGED <<resolvers, config, results, result, returned, did,
                 completed, timed_out, arg, ret, resolverVars>>

\* _run_sequential: the loop takes the next resolver and awaits its resolve()
TrySequential ==
  /\ pc = "seq_next"
  /\ LET i == Len(results) + 1 IN
       /\ invoked' = Append(invoked, active[i])
       /\ running' = {i}
  /\ pc' = "seq_await"
  /\ UNCHANGED <<resolvers, config, input_type, active, results,
                 task_results, result, returned, did, completed, timed_out,
                 arg, ret, resolverVars>>

\* the loop of _run_sequential without the break
loop_ends_never_breaking(rs, res) == Len(rs) + 1 = Len(active)

\* the loop of _run_sequential breaking on success whatever the config says
loop_ends_ignoring_config(rs, res) ==
  \/ ResultSuccess(res)
  \/ Len(rs) + 1 = Len(active)

\* the loop of _run_sequential stops after this result: break, or exhausted
loop_ends(rs, res) ==
  \/ config.stop_on_first_success /\ ResultSuccess(res)
  \/ Len(rs) + 1 = Len(active)

\* _run_sequential: the awaited resolver returns or raises; the result is
\* appended; on break or exhaustion resolve() fills the AggregatedResult
ReturnSequential(outcome) ==
  /\ pc = "seq_await"
  /\ \E i \in running :
       LET res == try_resolver(active[i], outcome) IN
         /\ returned' = Append(returned, res)
         /\ did' = Append(did, outcome)
         /\ completed' = Append(completed, i)
         /\ results' = Append(results, res)
         /\ running' = {}
         /\ IF loop_ends(results, res)
            THEN /\ result' = Collect(result, results')
                 /\ pc' = "done"
            ELSE /\ pc' = "seq_next"
                 /\ UNCHANGED result
  /\ UNCHANGED <<resolvers, config, input_type, active, task_results,
                 invoked, timed_out, arg, ret, resolverVars>>

\* _run_parallel: one of the gathered tasks finishes, in any order
ReturnParallel(i, outcome) ==
  /\ pc = "gather"
  /\ i \in running
  /\ LET res == try_resolver(active[i], outcome) IN
       /\ returned' = Append(returned, res)
       /\ did' = Append(did, outcome)
       /\ task_results' = [task_results EXCEPT ![i] = res]
  /\ completed' = Append(completed, i)
  /\ running' = running \ {i}
  /\ pc' = IF running' = {} THEN "gathered" ELSE "gather"
  /\ UNCHANGED <<resolvers, config, input_type, active, results, result,
                 invoked, timed_out, arg, ret, resolverVars>>

\* asyncio.gather handing back the results in completion order
gather_completion_order(tr, order) == [k \in 1..Len(order) |-> tr[order[k]]]

\* asyncio.gather: the results in the order of the awaitables passed in
gather(tr, order) == tr

\* _run_parallel returns to resolve(), which fills the AggregatedResult
GatherReturns ==
  /\ pc = "gathered"
  /\ results' = gather(task_results, completed)
  /\ result' = Collect(result, results')
  /\ pc' = "done"
  /\ UNCHANGED <<resolvers, config, input_type, active, task_results,
                 running, invoked, returned, did, completed, timed_out,
                 arg, ret, resolverVars>>

\* the AggregatedResult after asyncio.TimeoutError: the results list died
\* with the cancelled coroutine, line 125 aggregates the untouched result
after_timeout(agg) == [agg EXCEPT !.all_records = aggregate_records(agg)]

\* the deadline expires without cancelling the suspended resolve()
DeadlineFiresWithoutCancel ==
  /\ pc \in {"seq_await", "gather", "gathered"}
  /\ ~timed_out
  /\ timed_out' = TRUE
  /\ UNCHANGED <<resolvers, config, pc, input_type, active, results,
                 task_results, running, result, invoked, returned, did,
                 completed, arg, ret, resolverVars>>

\* the deadline expires while resolve() is suspended inside the timeout
\* block: the awaited resolvers are cancelled, TimeoutError is caught
DeadlineFires ==
  /\ pc \in {"seq_await", "gather", "gathered"}
  /\ timed_out' = TRUE
  /\ running' = {}
  /\ result' = after_timeout(result)
  /\ results' = <<>>
  /\ pc' = "done"
  /\ UNCHANGED <<resolvers, config, input_type, active, task_results,
                 invoked, returned, did, completed, arg, ret, resolverVars>>

Next ==
  \/ \E it \in InputTypes : Resolve(it)
  \/ TrySequential
  \/ \E outcome \in Outcomes : ReturnSequential(outcome)
  \/ \E i \in 1..NumResolvers, outcome \in Outcomes : ReturnParallel(i, outcome)
  \/ GatherReturns
  \/ DeadlineFires

Spec == Init /\ [][Next]_vars

\* the outcomes that differ in how resolve() goes on: a success, a success
\* without records, a failure, an exception
LiveOutcomes ==
  { o \in Outcomes :
      /\ o.status \in {"success", "not_found", NoneStr}
      /\ Len(o.records) <= 1
      /\ \A n \in 1..Len(o.records) : o.records[n].doi = "10.1234/test" }

LiveNext ==
  \/ \E it \in InputTypes : Resolve(it)
  \/ TrySequential
  \/ \E outcome \in LiveOutcomes : ReturnSequential(outcome)
  \/ \E i \in 1..NumResolvers, outcome \in LiveOutcomes : ReturnParallel(i, outcome)
  \/ GatherReturns
  \/ DeadlineFires

\* the event loop runs every ready coroutine, and the deadline timer fires;
\* nothing makes an awaited resolver answer
LiveSpec ==
  /\ Init /\ [][LiveNext]_vars
  /\ WF_vars(TrySequential)
  /\ WF_vars(GatherReturns)
  /\ WF_vars(DeadlineFires)

(***************************************************************************)
(* AggSpec: success and best_result applied to AggregatedResults built     *)
(* directly, as tests/unit/resolution/test_chain.py builds them.           *)
(***************************************************************************)
\* the call variables of a ChainResolver nobody is calling
NoChain ==
  /\ resolvers = <<>>
  /\ config = [stop_on_first_success |-> TRUE, parallel_execution |-> FALSE]
  /\ pc = "idle"
  /\ input_type = NoneStr
  /\ active = <<>>
  /\ results = <<>>
  /\ task_results = <<>>
  /\ running = {}
  /\ result = EmptyAggregated
  /\ invoked = <<>>
  /\ returned = <<>>
  /\ did = <<>>
  /\ completed = <<>>
  /\ timed_out = FALSE

\* ResolutionResults of every status, with and without a record
AnyResults ==
  { Result(st, rl, NoneStr, src) :
      st \in ResolutionStatus,
      rl \in {<<>>, <<Rec(NoneStr, "9780134093413", NoneStr, NoneStr, "Test")>>},
      src \in {SourceNames[1], SourceNames[2]} }

AnyAggregated ==
  { Aggregated(p, fb, <<>>, <<>>) :
      p \in AnyResults \cup {NoResult},
      fb \in SeqsUpTo(AnyResults, MaxFallbacks) }

AggInit == NoChain /\ NoRequests /\ arg \in [op : {"aggregated"}, agg : AnyAggregated] /\ ret = NoCall

\* read the success property
CallSuccess ==
  /\ arg.op = "aggregated" /\ ret = NoCall
  /\ ret' = [op |-> "success", val |-> success(arg.agg)]
  /\ UNCHANGED <<callVars, resolverVars, arg>>

\* read the best_result property
CallBestResult ==
  /\ arg.op = "aggregated" /\ ret = NoCall
  /\ ret' = [op |-> "best_result", val |-> best_result(arg.agg)]
  /\ UNCHANGED <<callVars, resolverVars, arg>>

AggNext == CallSuccess \/ CallBestResult

AggSpec == AggInit /\ [][AggNext]_vars

(***************************************************************************)
(* RecIdSpec: _get_record_id applied to records with every combination of  *)
(* identifiers.                                                            *)
(***************************************************************************)
\* an identifier field is None, empty, or set
AnyRecords ==
  { Rec(doi, i13, i10, ax, title) :
      doi \in {NoneStr, "", "10.1234/test"},
      i13 \in {NoneStr, "", "9780134093413"},
      i10 \in {NoneStr, "", "0134093410"},
      ax \in {NoneStr, "", "2301.12345"},
      title \in {"Test Book Title", "TEST BOOK TITLE"} }

RecIdInit == NoChain /\ NoRequests /\ arg \in [op : {"record"}, record : AnyRecords] /\ ret = NoCall

\* ChainResolver._get_record_id(record)
CallGetRecordId ==
  /\ arg.op = "record" /\ ret = NoCall
  /\ ret' = [op |-> "get_record_id", val |-> get_record_id(arg.record)]
  /\ UNCHANGED <<callVars, resolverVars, arg>>

RecIdNext == CallGetRecordId

RecIdSpec == RecIdInit /\ [][RecIdNext]_vars

\* the state after the resolver's constructor, whatever its configuration
ResolverInit ==
  /\ NoChain /\ arg = NoCall /\ ret = NoCall
  /\ \E cfg \in RateLimitConfigs : NewResolver(cfg)

\* the trace of a step that does none of the things NoTrace lists
quiet(tr) == [NoTrace EXCEPT !.calls = tr.calls]

\* resolve() returns r to its caller in this step
handed_back(tr, r, cause, sends) ==
  [tr EXCEPT !.handed = [result |-> r, cause |-> cause, sends |-> sends]]

\* a request timestamp is recorded in this step when it takes the
\* coroutine (tk afterwards) out of acquire()
permitted(tr, tk) ==
  [tr EXCEPT !.permit = tk.pc = "request", !.sent = tk.pc = "request"]

\* _make_request raises in this step
raising(tr, type, retry_after) ==
  [tr EXCEPT !.raised = [type |-> type, retry_after |-> retry_after]]

\* _record_request, then the lock and the semaphore are released
granted(l, t) ==
  [l EXCEPT !.request_times = Append(@, t), !.lock = 0, !.permits = @ + 1]

\* _wait_for_permit from line 95 on, run by the lock holder k on limiter l:
\* clean up, then sleep out the fuller window, or record the request at
\* once, leave acquire() and send the request (_make_request line 275)
EnterWindows(k, l, tk) ==
  LET times == cleanup_old_requests(l.request_times, now)
      wait == permit_wait(rate_limit, times, now)
      held == [l EXCEPT !.request_times = times, !.lock = k]
  IN IF wait > 0
     THEN /\ limiter' = held
          /\ task' = [task EXCEPT ![k] = [tk EXCEPT !.pc = "window",
                                                   !.wake = now + wait]]
     ELSE /\ limiter' = granted(held, now)
          /\ task' = [task EXCEPT ![k] = [tk EXCEPT !.pc = "request",
                                                   !.wake = 0, !.sends = 1]]

\* acquire() line 84 and _wait_for_permit lines 89-93: the free lock is
\* taken; inside a blocked-until period the holder sleeps until it ends
EnterLock(k, l, tk) ==
  IF now < l.retry_after_until
  THEN /\ limiter' = [l EXCEPT !.lock = k]
       /\ task' = [task EXCEPT ![k] = [tk EXCEPT !.pc = "blocked",
                                                !.wake = l.retry_after_until]]
  ELSE EnterWindows(k, l, tk)

\* acquire() line 83: a permit of the semaphore is taken, then the lock is
\* taken or waited for
EnterSemaphore(k, l, tk) ==
  LET taken == [l EXCEPT !.permits = @ - 1] IN
    IF l.lock = 0
    THEN EnterLock(k, taken, tk)
    ELSE /\ limiter' = taken
         /\ task' = [task EXCEPT ![k] = [tk EXCEPT !.pc = "lock"]]

\* acquire() lines 80-83: the semaphore is taken or waited for
EnterAcquire(k, tk) ==
  IF limiter.permits > 0
  THEN EnterSemaphore(k, limiter, tk)
  ELSE /\ task' = [task EXCEPT ![k] = [tk EXCEPT !.pc = "acquire"]]
       /\ UNCHANGED limiter

\* resolve(query, input_type) is called on the first idle coroutine: a
\* query that does not parse is answered at once, an arXiv id goes to the
\* default search_by_arxiv, anything else enters search_by_isbn /
\* search_by_doi and _make_request (line 269, start = time.monotonic()),
\* which runs on until its first suspension
CallResolve(k, q) ==
  /\ task[k].pc = "idle"
  /\ \A j \in 1..(k - 1) : task[j].pc # "idle"
  /\ trace.calls < MaxRequests
  /\ LET called == [quiet(trace) EXCEPT !.calls = @ + 1, !.called = q,
                                       !.before = <<limiter, stats, task>>]
     IN IF parse_query(q) = ValueError
        THEN /\ trace' = handed_back(called, invalid_query_result(q),
                                     "validation", 0)
             /\ UNCHANGED <<task, limiter>>
        ELSE IF q.input_type = "arxiv"
        THEN /\ trace' = handed_back(called, search_by_arxiv, "unsupported", 0)
             /\ UNCHANGED <<task, limiter>>
        ELSE /\ EnterAcquire(k, [IdleTask EXCEPT !.start = now])
             /\ trace' = permitted(called, task'[k])
  /\ UNCHANGED <<now, rate_limit, stats, callVars, arg, ret>>

\* the semaphore wait of acquire() line 83 ends
AcquireSemaphore(k) ==
  /\ task[k].pc = "acquire"
  /\ limiter.permits > 0
  /\ EnterSemaphore(k, limiter, task[k])
  /\ trace' = permitted(quiet(trace), task'[k])
  /\ UNCHANGED <<now, rate_limit, stats, callVars, arg, ret>>

\* the lock wait of acquire() line 84 ends
AcquireLock(k) ==
  /\ task[k].pc = "lock"
  /\ limiter.lock = 0
  /\ EnterLock(k, limiter, task[k])
  /\ trace' = permitted(quiet(trace), task'[k])
  /\ UNCHANGED <<now, rate_limit, stats, callVars, arg, ret>>

\* the sleep of line 92 is over: now is read again and the windows checked
WakeBlocked(k) ==
  /\ task[k].pc = "blocked"
  /\ now >= task[k].wake
  /\ EnterWindows(k, limiter, task[k])
  /\ trace' = permitted(quiet(trace), task'[k])
  /\ UNCHANGED <<now, rate_limit, stats, callVars, arg, ret>>

\* the sleep of line 118 is over: the request is recorded and sent
WakeWindow(k) ==
  /\ task[k].pc = "window"
  /\ now >= task[k].wake
  /\ limiter' = granted(limiter, now)
  /\ task' = [task EXCEPT ![k].pc = "request", ![k].wake = 0, ![k].sends = 1]
  /\ trace' = permitted(quiet(trace), task'[k])
  /\ UNCHANGED <<now, rate_limit, stats, callVars, arg, ret>>

\* the awaited client.request ends with r: a 429 that is retried, a 429
\* that is not (RateLimitError, or UnboundLocalError when wait_time was
\* never assigned, caught by search_by_*), a transport failure
\* (ResolverUnavailableError, caught as well), or any other response
Respond(k, r) ==
  /\ task[k].pc = "request"
  /\ IF r.status = 429 /\ should_retry_429(limiter, rate_limit)
     THEN LET l == handle_429(limiter, rate_limit, r.retry_after, now)
              wait == l.retry_after_until - now
          IN /\ limiter' = l
             /\ task' = [task EXCEPT ![k].pc = "retry", ![k].wake = now + wait,
                                     ![k].has_wait_time = TRUE,
                                     ![k].wait_time = wait]
             /\ trace' = [quiet(trace) EXCEPT !.backoff =
                            [n |-> l.consecutive_429s, wait |-> wait,
                             retry_after |-> r.retry_after]]
             /\ UNCHANGED stats
     ELSE IF r.status = 429
     THEN /\ stats' = record_failure(record_failure(stats))
          /\ trace' = handed_back(
                        IF task[k].has_wait_time
                        THEN raising(quiet(trace), "RateLimitError",
                                     task[k].wait_time)
                        ELSE raising(quiet(trace), "UnboundLocalError", 0),
                        Result("error", <<>>,
                               IF task[k].has_wait_time
                               THEN "Rate limit exceeded"
                               ELSE "cannot access local variable 'wait_time'",
                               SourceNames[3]),
                        "rate_limit", task[k].sends)
          /\ task' = [task EXCEPT ![k] = IdleTask]
          /\ UNCHANGED limiter
     ELSE IF r.status = 0
     THEN /\ stats' = record_failure(stats)
          /\ trace' = handed_back(
                        raising(quiet(trace), "ResolverUnavailableError", 0),
                        Result("error", <<>>, "HTTP error", SourceNames[3]),
                        "transport", task[k].sends)
          /\ task' = [task EXCEPT ![k] = IdleTask]
          /\ UNCHANGED limiter
     ELSE LET duration_ms == (now - task[k].start) * 500
              tracked == track_metrics(stats, r, duration_ms)
          IN /\ limiter' = reset_429_state(limiter)
             /\ stats' = IF r.status = 500 THEN record_failure(tracked) ELSE tracked
             /\ trace' = handed_back(quiet(trace), search_result(r), "response",
                                     task[k].sends)
             /\ task' = [task EXCEPT ![k] = IdleTask]
  /\ UNCHANGED <<now, rate_limit, callVars, arg, ret>>

\* the sleep of line 283 is over: continue, the request is sent again
WakeRetry(k) ==
  /\ task[k].pc = "retry"
  /\ now >= task[k].wake
  /\ task' = [task EXCEPT ![k].pc = "request", ![k].wake = 0,
                          ![k].sends = @ + 1]
  /\ trace' = [quiet(trace) EXCEPT !.sent = TRUE]
  /\ UNCHANGED <<now, rate_limit, limiter, stats, callVars, arg, ret>>

\* the monotonic clock advances by one tick, MaxTicks times; apart from
\* that it moves from one sleep's end to the next
Tick ==
  /\ now < MaxTicks
  /\ now' = now + 1
  /\ trace' = quiet(trace)
  /\ UNCHANGED <<rate_limit, limiter, stats, task, callVars, arg, ret>>

\* the coroutines that sleep past now
Sleepers == { k \in Tasks : task[k].pc \in {"blocked", "window", "retry"}
                              /\ task[k].wake > now }

\* the clock reaches the end of the earliest pending sleep
Elapse ==
  /\ Sleepers # {}
  /\ \E k \in Sleepers :
       /\ \A j \in Sleepers : task[k].wake <= task[j].wake
       /\ now' = task[k].wake
  /\ trace' = quiet(trace)
  /\ UNCHANGED <<rate_limit, limiter, stats, task, callVars, arg, ret>>

ResolverNext ==
  \/ \E k \in Tasks, q \in Queries : CallResolve(k, q)
  \/ \E k \in Tasks : AcquireSemaphore(k)
  \/ \E k \in Tasks : AcquireLock(k)
  \/ \E k \in Tasks : WakeBlocked(k)
  \/ \E k \in Tasks : WakeWindow(k)
  \/ \E k \in Tasks, r \in Responses : Respond(k, r)
  \/ \E k \in Tasks : WakeRetry(k)
  \/ Tick
  \/ Elapse

ResolverSpec == ResolverInit /\ [][ResolverNext]_vars

\* The same resolver used by one caller that awaits each resolve before the
\* next: no coroutine ever waits for the semaphore, the lock or a blocked-until.
SequentialNext ==
  \/ \E q \in Queries : CallResolve(1, q)
  \/ WakeWindow(1)
  \/ \E r \in Responses : Respond(1, r)
  \/ WakeRetry(1)
  \/ Tick
  \/ Elapse

SequentialSpec == ResolverInit /\ [][SequentialNext]_vars

(***************************************************************************)
(* BackoffSpec: handle_429 called for each 429 of a run, with and without  *)
(* a Retry-After header, on a limiter whose counter starts at zero.        *)
(***************************************************************************)
\* the Retry-After headers of a run of 429 responses, 0 when absent
HeaderRuns == SeqsUpTo({0, Seconds(1), Seconds(400)}, MaxRun)

\* the wait times handle_429 returns along the run, at a clock standing at t
RECURSIVE handle_429_run(_, _, _, _)
handle_429_run(l, cfg, headers, t) ==
  IF headers = <<>> THEN <<>>
  ELSE LET handled == handle_429(l, cfg, headers[1], t)
       IN <<handled.retry_after_until - t>>
            \o handle_429_run(handled, cfg, Tail(headers), t)

\* the defaults, and backoff factors of 1.0, 1.5 and 6.0
BackoffConfigs ==
  { [DefaultRateLimit EXCEPT !.backoff_factor = f] : f \in {10, 15, 20, 60} }

BackoffInit ==
  /\ NoChain /\ NoRequests
  /\ arg \in [op : {"429s"}, config : BackoffConfigs, headers : HeaderRuns]
  /\ ret = NoCall

\* handle_429(retry_after) for every 429 of the run
CallHandle429 ==
  /\ arg.op = "429s" /\ ret = NoCall
  /\ ret' = [op |-> "handle_429",
             val |-> handle_429_run(AsyncRateLimiter(arg.config), arg.config,
                                    arg.headers, now)]
  /\ UNCHANGED <<callVars, resolverVars, arg>>

BackoffNext == CallHandle429

BackoffSpec == BackoffInit /\ [][BackoffNext]_vars

(***************************************************************************)
(* ScoreSpec: reliability_score on arbitrary counters and base values.     *)
(***************************************************************************)
\* _BASE_RELIABILITY in hundredths: the ends of [0, 1], the class default
\* and the values the five concrete resolvers set
BaseReliabilities == {0, 50, 75, 80, 85, 90, 95, 100}

\* _total_latency_ms: nothing, under the 100 ms floor of the average, at
\* the 5 s knee for one and for MaxCount requests, and beyond it
Latencies == {0, 50, 100, 450, 5000, 5001, 5000 * MaxCount, 20000, 100000}

ScoreInit ==
  /\ NoChain /\ NoRequests
  /\ arg \in [op : {"counters"}, base : BaseReliabilities,
              success_count : 0..MaxCount, failure_count : 0..MaxCount,
              total_latency_ms : Latencies]
  /\ ret = NoCall

\* read the reliability_score property
CallReliabilityScore ==
  /\ arg.op = "counters" /\ ret = NoCall
  /\ ret' = [op |-> "reliability_score",
             val |-> score_of(arg.base, arg.success_count, arg.failure_count,
                              arg.total_latency_ms)]
  /\ UNCHANGED <<callVars, resolverVars, arg>>

ScoreNext == CallReliabilityScore

ScoreSpec == ScoreInit /\ [][ScoreNext]_vars

(***************************************************************************)
(* IsbnSpec: the ISBN conversions applied to ten-character strings.        *)
(***************************************************************************)
\* the digits the nine leading characters are drawn from
BodyDigits == {"0", "8"}

\* ten-character strings: every body over BodyDigits and the bodies of the
\* tests' ISBN-10s, each with every check character, right or wrong
IsbnStrings ==
  { Append(body, c) :
      body \in [1..9 -> BodyDigits]
               \cup { <<"0","1","3","4","0","9","3","4","1">>,
                      <<"1","5","5","8","6","0","8","3","2">>,
                      <<"0","8","0","4","4","2","9","5","7">> },
      c \in { Digits[d] : d \in 1..10 } \cup {"X"} }

\* thirteen-character strings: both prefixes, the same bodies, every check
\* digit, right or wrong
Isbn13Strings ==
  { <<"9", "7", p>> \o body \o <<c>> :
      p \in {"8", "9"},
      body \in [1..9 -> BodyDigits]
               \cup { <<"0","1","3","4","0","9","3","4","1">>,
                      <<"1","5","5","8","6","0","8","3","2">>,
                      <<"0","8","0","4","4","2","9","5","7">> },
      c \in { Digits[d] : d \in 1..10 } }

IsbnInit ==
  /\ NoChain /\ NoRequests
  /\ arg \in [op : {"isbn"}, x : IsbnStrings]
             \cup [op : {"isbn13"}, x : Isbn13Strings]
  /\ ret = NoCall

\* ISBN.parse(x).to_isbn13().to_isbn10(), each step only when the one
\* before returned an ISBN
CallConvertObject ==
  /\ arg.op = "isbn" /\ ret = NoCall
  /\ LET parsed == ISBN_parse(arg.x)
         isbn13 == IF parsed = ValueError THEN ValueError ELSE to_isbn13(parsed)
         back == IF isbn13 = ValueError THEN ValueError ELSE to_isbn10(isbn13)
     IN ret' = [op |-> "to_isbn13.to_isbn10", parsed |-> parsed,
                isbn13 |-> isbn13, back |-> back]
  /\ UNCHANGED <<callVars, resolverVars, arg>>

\* isbn_13_to_10(isbn_10_to_13(x))
CallConvertString ==
  /\ arg.op = "isbn" /\ ret = NoCall
  /\ LET isbn13 == isbn_10_to_13(arg.x)
         back == IF isbn13 = RaisedValueError THEN RaisedValueError
                 ELSE isbn_13_to_10(isbn13)
     IN ret' = [op |-> "isbn_13_to_10", isbn13 |-> isbn13, back |-> back]
  /\ UNCHANGED <<callVars, resolverVars, arg>>

\* hash(a), hash(b), a == b and {a, b} for a = ISBN.parse(x) and
\* b = a.to_isbn13(), when x parses
CallHashAndCompare ==
  /\ arg.op = "isbn" /\ ret = NoCall
  /\ ISBN_parse(arg.x) # ValueError
  /\ LET a == ISBN_parse(arg.x)
         b == to_isbn13(a)
     IN ret' = [op |-> "hash_eq", hash_a |-> ISBN_hash(a),
                hash_b |-> ISBN_hash(b), eq |-> ISBN_eq(a, b),
                set |-> set_of_two(a, b)]
  /\ UNCHANGED <<callVars, resolverVars, arg>>

\* ISBN.parse(v).to_isbn10() next to isbn_13_to_10(v)
CallToIsbn10 ==
  /\ arg.op = "isbn13" /\ ret = NoCall
  /\ LET parsed == ISBN_parse(arg.x) IN
       ret' = [op |-> "to_isbn10",
               object |-> IF parsed = ValueError THEN ValueError
                          ELSE to_isbn10(parsed),
               function |-> isbn_13_to_10(arg.x)]
  /\ UNCHANGED <<callVars, resolverVars, arg>>

IsbnNext ==
  \/ CallConvertObject
  \/ CallConvertString
  \/ CallHashAndCompare
  \/ CallToIsbn10

IsbnSpec == IsbnInit /\ [][IsbnNext]_vars

(***************************************************************************)
(* DetectSpec: IdentifierDetector.detect and detect_all                    *)
(* (detection/identifier.py).  A query is kept as what the matchers find   *)
(* in it; confidences are in hundredths.                                   *)
(***************************************************************************)
\* DetectionResult(input_type, confidence)
DetectionResult(type, confidence) ==
  [input_type |-> type, confidence |-> confidence]

\* None where a DetectionResult is expected
NoDetection == DetectionResult(NoneStr, 0)

\* the queries, by what the patterns find in them once stripped: blank
\* (nothing left), a DOI or an arXiv id that validates, an ISBN that parses
\* or one of the right length that does not, a PMID, a URL by its host, a
\* citation by indicators or by an author-year opening.  The anchored ISBN
\* and PMID patterns leave room for nothing else; a doi.org / arxiv.org URL
\* with a valid identifier is also found by the DOI / arXiv pattern; an
\* author-year opening is no URL.
QueryShapes ==
  { q \in [blank : BOOLEAN, doi : BOOLEAN, arxiv : BOOLEAN,
           isbn : {"none", "isbn10", "isbn13", "invalid10", "invalid13"},
           pmid : BOOLEAN,
           url : {"none", "doi", "arxiv", "pubmed", "generic"},
           citation : {"none", "indicators", "author_year"}] :
      LET plain == ~q.doi /\ ~q.arxiv /\ q.url = "none" /\ q.citation = "none"
      IN /\ q.blank => plain /\ q.isbn = "none" /\ ~q.pmid
         /\ q.isbn # "none" => plain /\ ~q.pmid
         /\ q.pmid => plain /\ q.isbn = "none"
         /\ q.url = "doi" => q.doi
         /\ q.url = "arxiv" => q.arxiv
         /\ q.citation = "author_year" => q.url = "none" }

\* _try_doi
try_doi(q) ==
  IF q.doi THEN DetectionResult("doi", 95) ELSE NoDetection

\* _try_arxiv
try_arxiv(q) ==
  IF q.arxiv THEN DetectionResult("arxiv", 95) ELSE NoDetection

\* _try_isbn
try_isbn(q) ==
  CASE q.isbn = "isbn10" -> DetectionResult("isbn_10", 95)
    [] q.isbn = "isbn13" -> DetectionResult("isbn_13", 95)
    [] q.isbn = "invalid10" -> DetectionResult("isbn_10", 50)
    [] q.isbn = "invalid13" -> DetectionResult("isbn_13", 50)
    [] OTHER -> NoDetection

\* _try_pmid
try_pmid(q) ==
  IF q.pmid THEN DetectionResult("pmid", 90) ELSE NoDetection

\* _try_url
try_url(q) ==
  CASE q.url = "doi" -> DetectionResult("doi", 98)
    [] q.url = "arxiv" -> DetectionResult("arxiv", 98)
    [] q.url = "pubmed" -> DetectionResult("pmid", 95)
    [] q.url = "generic" -> DetectionResult("url", 60)
    [] OTHER -> NoDetection

\* _try_citation
try_citation(q) ==
  CASE q.citation = "indicators" -> DetectionResult("citation", 70)
    [] q.citation = "author_year" -> DetectionResult("citation", 65)
    [] OTHER -> NoDetection

\* the matchers in the order detect and detect_all try them
Matchers(q) ==
  <<try_doi(q), try_arxiv(q), try_isbn(q), try_pmid(q), try_url(q),
    try_citation(q)>>

\* one step of list.sort(key=lambda r: r.confidence, reverse=True): r goes
\* behind the results that are at least as confident (the sort is stable)
insert_by_confidence(sorted, r) ==
  LET ahead == SelectSeq(sorted, LAMBDA x : x.confidence >= r.confidence)
      behind == SelectSeq(sorted, LAMBDA x : x.confidence < r.confidence)
  IN ahead \o <<r>> \o behind

\* results.sort(key=lambda r: r.confidence, reverse=True)
RECURSIVE sort_by_confidence(_)
sort_by_confidence(rs) ==
  IF rs = <<>> THEN <<>>
  ELSE insert_by_confidence(sort_by_confidence(SubSeq(rs, 1, Len(rs) - 1)),
                            rs[Len(rs)])

\* detect: the first matcher that finds something, else the title
detect(q) ==
  LET found == SelectSeq(Matchers(q), LAMBDA r : r # NoDetection) IN
    IF q.blank THEN DetectionResult("unknown", 0)
    ELSE IF found # <<>> THEN found[1]
    ELSE DetectionResult("title", 50)

\* a detect_all that leaves the results in the order they were appended
detect_all_unsorted(q) ==
  IF q.blank THEN <<>>
  ELSE Append(SelectSeq(Matchers(q), LAMBDA r : r # NoDetection),
              DetectionResult("title", 30))

\* detect_all
detect_all(q) ==
  IF q.blank THEN <<>>
  ELSE sort_by_confidence(
         Append(SelectSeq(Matchers(q), LAMBDA r : r # NoDetection),
                DetectionResult("title", 30)))

DetectInit ==
  /\ NoChain /\ NoRequests
  /\ arg \in [op : {"query"}, q : QueryShapes]
  /\ ret = NoCall

\* IdentifierDetector().detect(query)
CallDetect ==
  /\ arg.op = "query" /\ ret = NoCall
  /\ ret' = [op |-> "detect", val |-> detect(arg.q)]
  /\ UNCHANGED <<callVars, resolverVars, arg>>

\* IdentifierDetector().detect_all(query)
CallDetectAll ==
  /\ arg.op = "query" /\ ret = NoCall
  /\ ret' = [op |-> "detect_all", val |-> detect_all(arg.q)]
  /\ UNCHANGED <<callVars, resolverVars, arg>>

DetectNext == CallDetect \/ CallDetectAll

DetectSpec == DetectInit /\ [][DetectNext]_vars

(***************************************************************************)
(* ChainCallsSpec: one ChainResolver whose resolve() is called again and   *)
(* again, by coroutines whose calls may overlap, on resolvers whose        *)
(* counters every invocation changes.  Here task holds where each call of  *)
(* ChainResolver.resolve stands and trace.calls counts the calls made.     *)
(***************************************************************************)
\* a resolve() coroutine of the chain that is not running: the resolvers
\* (by source name) it has still to invoke, those it is awaiting, and those
\* its filter left out
IdleCall ==
  [pc |-> "idle", remaining |-> <<>>, awaiting |-> {}, left_out |-> {}]

\* what one resolver.resolve() does to the resolver's counters: a 2xx
\* response, a slow 404, an invalid query (nothing counted)
Exchanges ==
  { [success |-> TRUE,  s |-> 1, f |-> 0, ms |-> 100],
    [success |-> FALSE, s |-> 0, f |-> 1, ms |-> 6000],
    [success |-> FALSE, s |-> 0, f |-> 0, ms |-> 0] }

\* _make_request's metrics and _record_failure, on the resolver's counters
count_exchange(r, x) ==
  [r EXCEPT !.success_count = @ + x.s,
            !.failure_count = @ + x.f,
            !.total_latency_ms = @ + x.ms]

\* the source names of a list of resolvers, in order
source_names(rs) == [i \in 1..Len(rs) |-> rs[i].source_name]

\* every resolver passes, whatever its score
active_resolvers_unfiltered(rs, type) == source_names(rs)

\* active_resolvers of resolve(): the resolvers _filter_resolvers keeps
active_resolvers(rs, type) == source_names(filter_resolvers(rs, type))

\* the elements of a sequence
elements(xs) == { xs[i] : i \in 1..Len(xs) }

\* reliability_score < config.min_reliability_score
below_threshold(r) ==
  reliability_score(r).num < min_reliability_score * reliability_score(r).den

\* some resolve() call in progress is awaiting the resolver or has it
\* still to invoke
pending(src) ==
  \E c \in Tasks : src \in task[c].awaiting \cup elements(task[c].remaining)

\* ChainResolver.__init__ on newly built resolvers, nobody calling
ChainCallsInit ==
  /\ resolvers = init_resolvers(
       [i \in 1..NumResolvers |->
          MakeResolver(i, IF i = 1 THEN 10 ELSE 50, "ok")])
  /\ config \in Configs
  /\ pc = "idle"
  /\ input_type = NoneStr
  /\ active = <<>>
  /\ results = <<>>
  /\ task_results = <<>>
  /\ running = {}
  /\ result = EmptyAggregated
  /\ invoked = <<>>
  /\ returned = <<>>
  /\ did = <<>>
  /\ completed = <<>>
  /\ timed_out = FALSE
  /\ arg = NoCall
  /\ ret = NoCall
  /\ now = 0
  /\ rate_limit = DefaultRateLimit
  /\ limiter = AsyncRateLimiter(DefaultRateLimit)
  /\ stats = NoStats
  /\ task = [c \in Tasks |-> IdleCall]
  /\ trace = NoTrace

\* resolve() runs its resolvers in parallel
runs_parallel == config.parallel_execution /\ ~config.stop_on_first_success

\* everything but the resolvers' counters and the calls
chainCallsFrame ==
  <<config, pc, input_type, active, results, task_results, running, result,
    invoked, returned, did, completed, timed_out, arg, ret, now, rate_limit,
    limiter, stats>>

\* resolve() is called: the filter, then the first resolver (or, in
\* parallel, all of them) is invoked; with nothing kept it returns at once
CallChainResolve(c) ==
  /\ task[c].pc = "idle"
  /\ trace.calls < MaxCalls
  /\ LET kept == active_resolvers(resolvers, "isbn_13")
         left == elements(source_names(resolvers)) \ elements(kept)
     IN task' = [task EXCEPT ![c] =
                   IF kept = <<>> THEN IdleCall
                   ELSE IF runs_parallel
                   THEN [pc |-> "running", remaining |-> <<>>,
                         awaiting |-> elements(kept), left_out |-> left]
                   ELSE [pc |-> "running", remaining |-> Tail(kept),
                         awaiting |-> {Head(kept)}, left_out |-> left]]
  /\ trace' = [trace EXCEPT !.calls = @ + 1]
  /\ UNCHANGED <<resolvers, chainCallsFrame>>

\* a resolver awaited by the call hands back its result: its counters have
\* changed; _run_sequential goes on to the next one or stops, gather waits
\* for the rest
ResolverReturns(c, i, x) ==
  /\ task[c].pc = "running"
  /\ resolvers[i].source_name \in task[c].awaiting
  /\ resolvers' = [resolvers EXCEPT ![i] = count_exchange(@, x)]
  /\ LET rest == task[c].awaiting \ {resolvers[i].source_name}
         stop == config.stop_on_first_success /\ x.success
     IN task' = [task EXCEPT ![c] =
                   IF rest # {} THEN [@ EXCEPT !.awaiting = rest]
                   ELSE IF task[c].remaining = <<>> \/ stop THEN IdleCall
                   ELSE [@ EXCEPT !.awaiting = {Head(task[c].remaining)},
                                  !.remaining = Tail(task[c].remaining)]]
  /\ UNCHANGED <<trace, chainCallsFrame>>

\* asyncio.timeout expires: what the call awaits is cancelled
DeadlineExpires(c) ==
  /\ task[c].pc = "running"
  /\ task' = [task EXCEPT ![c] = IdleCall]
  /\ UNCHANGED <<resolvers, trace, chainCallsFrame>>

ChainCallsNext ==
  \/ \E c \in Tasks : CallChainResolve(c)
  \/ \E c \in Tasks, i \in 1..NumResolvers, x \in Exchanges :
       ResolverReturns(c, i, x)
  \/ \E c \in Tasks : DeadlineExpires(c)

ChainCallsSpec == ChainCallsInit /\ [][ChainCallsNext]_vars

(***************************************************************************)
(* AcquireSpec: one AsyncRateLimiter used by NumTasks coroutines the way   *)
(* _make_request uses it: acquire(), then handle_429() when the answer is  *)
(* a 429 that may be retried, reset_429_state() when it is another one.    *)
(* Any of them may be cancelled while it is inside acquire(); the event    *)
(* loop runs every coroutine that can go on and the clock does not stop.   *)
(***************************************************************************)
\* the pcs of a coroutine inside acquire(): waiting for the semaphore, for
\* the lock, or asleep in _wait_for_permit with both
InAcquire == {"acquire", "lock", "blocked", "window"}

\* acquire() is called by the first idle coroutine and runs on until its
\* first suspension
CallAcquire(k) ==
  /\ task[k].pc = "idle"
  /\ \A j \in 1..(k - 1) : task[j].pc # "idle"
  /\ trace.calls < MaxRequests
  /\ EnterAcquire(k, IdleTask)
  /\ trace' = permitted([quiet(trace) EXCEPT !.calls = @ + 1], task'[k])
  /\ UNCHANGED <<now, rate_limit, stats, callVars, arg, ret>>

\* the coroutine that has its permit is answered 429 and may retry:
\* handle_429 without Retry-After
CallHandle429Retried(k) ==
  /\ task[k].pc = "request"
  /\ should_retry_429(limiter, rate_limit)
  /\ limiter' = handle_429(limiter, rate_limit, 0, now)
  /\ task' = [task EXCEPT ![k] = IdleTask]
  /\ trace' = quiet(trace)
  /\ UNCHANGED <<now, rate_limit, stats, callVars, arg, ret>>

\* the coroutine that has its permit is answered otherwise:
\* reset_429_state
CallReset429State(k) ==
  /\ task[k].pc = "request"
  /\ limiter' = reset_429_state(limiter)
  /\ task' = [task EXCEPT ![k] = IdleTask]
  /\ trace' = quiet(trace)
  /\ UNCHANGED <<now, rate_limit, stats, callVars, arg, ret>>

\* a cancellation that leaves the semaphore and the lock as they are
CancelAcquireHolding(k) ==
  /\ task[k].pc \in InAcquire
  /\ task' = [task EXCEPT ![k] = IdleTask]
  /\ trace' = quiet(trace)
  /\ UNCHANGED <<now, rate_limit, limiter, stats, callVars, arg, ret>>

\* CancelledError is thrown into the coroutine at its await inside
\* acquire(): the two `async with` blocks release what they had acquired
CancelAcquire(k) ==
  /\ task[k].pc \in InAcquire
  /\ limiter' =
       IF task[k].pc = "acquire" THEN limiter
       ELSE IF task[k].pc = "lock" THEN [limiter EXCEPT !.permits = @ + 1]
       ELSE [limiter EXCEPT !.lock = 0, !.permits = @ + 1]
  /\ task' = [task EXCEPT ![k] = IdleTask]
  /\ trace' = quiet(trace)
  /\ UNCHANGED <<now, rate_limit, stats, callVars, arg, ret>>

AcquireNext ==
  \/ \E k \in Tasks : CallAcquire(k)
  \/ \E k \in Tasks : AcquireSemaphore(k)
  \/ \E k \in Tasks : AcquireLock(k)
  \/ \E k \in Tasks : WakeBlocked(k)
  \/ \E k \in Tasks : WakeWindow(k)
  \/ \E k \in Tasks : CallHandle429Retried(k)
  \/ \E k \in Tasks : CallReset429State(k)
  \/ \E k \in Tasks : CancelAcquire(k)
  \/ Tick
  \/ Elapse

\* asyncio wakes a waiter when the semaphore or the lock is released and
\* runs a coroutine whose sleep is over; time passes.  Nothing makes a
\* caller call, the server answer, or a cancellation happen.
AcquireSpec ==
  /\ ResolverInit /\ [][AcquireNext]_vars
  /\ \A k \in Tasks :
       /\ WF_vars(AcquireSemaphore(k))
       /\ WF_vars(AcquireLock(k))
       /\ WF_vars(WakeBlocked(k))
       /\ WF_vars(WakeWindow(k))
  /\ WF_vars(Tick)
  /\ WF_vars(Elapse)

(***************************************************************************)
(* Properties.                                                             *)
(***************************************************************************)
Last(q) == q[Len(q)]

SourcesOf(rs) == [i \in 1..Len(rs) |-> rs[i].source]

\* resolve() has returned through the normal exit of the timeout block
ReturnedNormally == pc = "done" /\ ~timed_out /\ active # <<>>

\* C1: in sequential mode with stop_on_first_success the filtered resolvers
\* are invoked one at a time in ascending priority order; nothing is invoked
\* after the first success; when _run_sequential returns, the results are
\* those of the prefix of that order ending with the first success (of all
\* resolvers if none succeeds), and success / sources_tried / best_result
\* of the AggregatedResult are read off that prefix.
C1_SequentialStopsAtFirstSuccess ==
  config.stop_on_first_success =>
    /\ \A i, j \in 1..Len(active) : i < j => active[i].priority <= active[j].priority
    /\ Len(invoked) <= Len(active)
    /\ invoked = SubSeq(active, 1, Len(invoked))
    /\ Cardinality(running) <= 1
    /\ Len(returned) <= Len(invoked) /\ Len(invoked) <= Len(returned) + 1
    /\ \A k \in 1..Len(returned) :
         /\ returned[k].source = active[k].source_name
         /\ ResultSuccess(returned[k]) =>
              k = Len(returned) /\ Len(invoked) = k
    /\ ReturnedNormally =>
         /\ results = returned
         /\ ResultSuccess(Last(results)) \/ Len(results) = Len(active)
         /\ result.sources_tried
              = [i \in 1..Len(results) |-> active[i].source_name]
         /\ result.sources_tried = SourcesOf(results)
         /\ result.primary_result = results[1]
         /\ result.fallback_results = Tail(results)
         /\ success(result) <=> ResultSuccess(Last(results))
         /\ success(result) => best_result(result) = Last(results)

\* C1 witness: two filtered resolvers, the first succeeded, the call returned
\* with one source tried
C1_Witness ==
  /\ config.stop_on_first_success
  /\ ReturnedNormally
  /\ Len(active) = 2
  /\ active[1].priority = 10 /\ active[2].priority = 50
  /\ Len(result.sources_tried) = 1
  /\ ResultSuccess(result.primary_result)

\* C2 (as claimed): when the deadline fires after k >= 1 resolvers have
\* returned, the AggregatedResult still holds those k results, their
\* sources and their records.
C2_DeadlineKeepsGathered ==
  (pc = "done" /\ timed_out /\ Len(returned) >= 1) =>
    /\ result.primary_result # NoResult
    /\ \A k \in 1..Len(returned) :
         /\ \E i \in 1..Len(all_results(result)) :
              all_results(result)[i] = returned[k]
         /\ \E i \in 1..Len(result.sources_tried) :
              result.sources_tried[i] = returned[k].source
         /\ \A n \in 1..Len(returned[k].records) :
              \E i \in 1..Len(result.all_records) :
                get_record_id(result.all_records[i])
                  = get_record_id(returned[k].records[n])

\* C3: a resolver that raises contributes an error result with its source
\* name and the exception message; resolve() hands back only well-formed
\* ResolutionResults; in the sequential loop the resolver after a raising
\* one is attempted as after any non-success.
C3_RaisingResolverContained ==
  /\ Len(did) = Len(returned) /\ Len(completed) = Len(returned)
  /\ \A k \in 1..Len(returned) :
       /\ returned[k].status \in ResolutionStatus
       /\ returned[k].source = active[completed[k]].source_name
       /\ did[k].kind = "raise" =>
            /\ returned[k] = Result("error", <<>>, did[k].message,
                                    active[completed[k]].source_name)
            /\ ~ResultSuccess(returned[k])
            /\ (pc \notin {"gather", "gathered"} /\ ~timed_out
                  /\ k < Len(active)) =>
                 \/ pc = "seq_next" /\ Len(invoked) = k
                 \/ Len(invoked) > k
  /\ \A i \in 1..Len(all_results(result)) :
       all_results(result)[i].status \in ResolutionStatus
  /\ ReturnedNormally =>
       /\ Len(all_results(result)) = Len(returned)
       /\ \A k \in 1..Len(returned) :
            did[k].kind = "raise" =>
              \E i \in 1..Len(all_results(result)) :
                all_results(result)[i] = returned[k]

\* C3 witness: the first of two resolvers raised, the second was attempted
\* and the call returned both results
C3_Witness ==
  /\ ReturnedNormally
  /\ ~config.parallel_execution
  /\ Len(did) = 2
  /\ did[1].kind = "raise"
  /\ result.primary_result.status = "error"
  /\ result.primary_result.error_message = "boom"
  /\ Len(result.fallback_results) = 1

\* C4: every call of resolve() returns, whatever the resolvers do, once the
\* deadline timer is allowed to fire.
C4_ResolveReturns == (pc # "idle") ~> (pc = "done")

\* C4 witness: the call returned although a resolver it awaited never
\* answered
C4_Witness ==
  /\ pc = "done"
  /\ timed_out
  /\ Len(returned) < Len(invoked)

\* C5: only resolvers that are enabled, support the input type and reach
\* min_reliability_score are invoked; with none, resolve() returns the empty
\* AggregatedResult and invokes nothing.
C5_OnlyFilteredInvoked ==
  LET eligible(r) ==
        /\ r.enabled
        /\ input_type \in r.SUPPORTED_INPUT_TYPES
        /\ reliability_score(r).num >= 500 * reliability_score(r).den
  IN /\ \A k \in 1..Len(invoked) :
          /\ eligible(invoked[k])
          /\ \E i \in 1..Len(resolvers) : resolvers[i] = invoked[k]
     /\ (pc # "idle" /\ \A i \in 1..Len(resolvers) : ~eligible(resolvers[i])) =>
          /\ pc = "done"
          /\ invoked = <<>>
          /\ result = EmptyAggregated
          /\ result.primary_result = NoResult
          /\ result.fallback_results = <<>>
          /\ result.all_records = <<>>
          /\ result.sources_tried = <<>>
          /\ ~success(result)

\* C5 witness: an enabled resolver that supports the input type but has
\* fallen below the threshold is the only candidate; the call returned empty
C5_Witness ==
  /\ pc = "done"
  /\ input_type = "title"
  /\ invoked = <<>>
  /\ result = EmptyAggregated
  /\ \E i \in 1..Len(resolvers) :
       /\ resolvers[i].enabled
       /\ supports(resolvers[i], input_type)
       /\ resolvers[i].failure_count > 0

\* C6: with stop_on_first_success off and no deadline expiry every filtered
\* resolver is invoked exactly once, sequentially or in parallel, and
\* sources_tried has one entry per filtered resolver.
C6_AllSourcesTried ==
  (~config.stop_on_first_success /\ ReturnedNormally) =>
    /\ invoked = active
    /\ Len(returned) = Len(active)
    /\ \A i \in 1..Len(active) :
         Cardinality({k \in 1..Len(completed) : completed[k] = i}) = 1
    /\ result.sources_tried = [i \in 1..Len(active) |-> active[i].source_name]

\* C6 witness: the first resolver succeeded and the second was still run
C6_Witness ==
  /\ ~config.stop_on_first_success
  /\ ~config.parallel_execution
  /\ ReturnedNormally
  /\ Len(active) = 2
  /\ ResultSuccess(result.primary_result)
  /\ Len(result.sources_tried) = 2

\* C7: under parallel execution the results are listed in priority order of
\* the resolvers, whatever the completion order: the primary result is the
\* first filtered resolver's, the fallbacks follow in ascending priority.
C7_ParallelKeepsPriorityOrder ==
  (config.parallel_execution /\ ~config.stop_on_first_success
     /\ ReturnedNormally) =>
    /\ \A i, j \in 1..Len(active) : i < j => active[i].priority <= active[j].priority
    /\ result.primary_result.source = active[1].source_name
    /\ \A k \in 1..Len(completed) :
         returned[k] = all_results(result)[completed[k]]
    /\ \A i \in 1..Len(result.fallback_results) :
         result.fallback_results[i].source = active[i + 1].source_name
    /\ result.sources_tried = [i \in 1..Len(active) |-> active[i].source_name]

\* C7 witness: the second resolver finished before the first
C7_Witness ==
  /\ config.parallel_execution /\ ~config.stop_on_first_success
  /\ ReturnedNormally
  /\ Len(completed) = 2
  /\ completed[1] = 2 /\ completed[2] = 1
  /\ active[1].priority < active[2].priority

\* C8: success holds iff some result among (primary, fallbacks) has status
\* success and a non-empty records list; best_result is the first such
\* result in that order, else the first result of any status, else absent.
C8_SuccessAndBestResult ==
  LET ordered == (IF arg.agg.primary_result = NoResult THEN <<>>
                  ELSE <<arg.agg.primary_result>>) \o arg.agg.fallback_results
      good == {i \in 1..Len(ordered) :
                 ordered[i].status = "success" /\ ordered[i].records # <<>>}
  IN /\ ret.op = "success" => (ret.val <=> good # {})
     /\ ret.op = "best_result" =>
          ret.val = IF good # {}
                    THEN ordered[CHOOSE i \in good : \A j \in good : i <= j]
                    ELSE IF ordered # <<>> THEN ordered[1] ELSE NoResult

\* C8 witness: no primary result, a failed fallback before a successful one;
\* best_result skipped the failed one
C8_Witness ==
  /\ ret.op = "best_result"
  /\ arg.agg.primary_result = NoResult
  /\ Len(arg.agg.fallback_results) = 2
  /\ ~ResultSuccess(arg.agg.fallback_results[1])
  /\ ret.val = arg.agg.fallback_results[2]

\* C9: all_records never holds two records with the same dedup key; the
\* record kept for a key is the first one with that key in (primary,
\* fallbacks) order, unchanged; every returned key is represented.
C9_FirstRecordPerKeyKept ==
  LET scanned == Flatten(all_results(result))
      kept == result.all_records
      first(key) == CHOOSE n \in 1..Len(scanned) :
                      /\ get_record_id(scanned[n]) = key
                      /\ \A m \in 1..(n - 1) : get_record_id(scanned[m]) # key
  IN pc = "done" =>
       /\ \A i, j \in 1..Len(kept) :
            i # j => get_record_id(kept[i]) # get_record_id(kept[j])
       /\ \A n \in 1..Len(scanned) :
            \E i \in 1..Len(kept) : kept[i] = scanned[first(get_record_id(scanned[n]))]
       /\ \A i \in 1..Len(kept) :
            \E n \in 1..Len(scanned) :
              /\ kept[i] = scanned[n]
              /\ n = first(get_record_id(kept[i]))
       /\ \A i, j \in 1..Len(kept) :
            i < j => first(get_record_id(kept[i])) < first(get_record_id(kept[j]))

\* C9 witness: two sources returned different records of the same ISBN-13;
\* one record is kept, the primary source's
C9_Witness ==
  /\ ReturnedNormally
  /\ Len(result.fallback_results) = 1
  /\ Len(result.primary_result.records) = 1
  /\ Len(result.fallback_results[1].records) = 1
  /\ result.primary_result.records[1] # result.fallback_results[1].records[1]
  /\ result.primary_result.records[1].isbn_13
       = result.fallback_results[1].records[1].isbn_13
  /\ result.all_records = result.primary_result.records

\* C10: the dedup key is built from the first identifier that is set (not
\* None, not empty) in the order DOI, ISBN-13, ISBN-10, arXiv ID, and from
\* the lowercased title when none is set.
C10_RecordIdPrecedence ==
  LET r == arg.record
      fields == << [prefix |-> "doi:", value |-> r.doi],
                   [prefix |-> "isbn:", value |-> r.isbn_13],
                   [prefix |-> "isbn:", value |-> r.isbn_10],
                   [prefix |-> "arxiv:", value |-> r.arxiv_id] >>
      set == {i \in 1..4 : fields[i].value \notin {NoneStr, ""}}
      first == CHOOSE i \in set : \A j \in set : i <= j
  IN ret.op = "get_record_id" =>
       ret.val = IF set = {} THEN "title:test book title"
                 ELSE fields[first].prefix \o fields[first].value

\* C10 witness: no DOI and no ISBN-13, but ISBN-10 and arXiv ID: the key is
\* the ISBN-10
C10_Witness ==
  /\ ret.op = "get_record_id"
  /\ arg.record.doi = NoneStr /\ arg.record.isbn_13 = NoneStr
  /\ arg.record.isbn_10 = "0134093410" /\ arg.record.arxiv_id = "2301.12345"
  /\ ret.val = "isbn:0134093410"

(***************************************************************************)
(* Properties of the rate limiter, the resolver contract and the value     *)
(* objects.                                                                *)
(***************************************************************************)
\* C11: the request timestamps recorded by acquire() never exceed the
\* ceilings: around every recorded timestamp, the rolling second ending at
\* it holds at most requests_per_second of them and the rolling minute at
\* most requests_per_minute (rates are in tenths).
C11_WindowsWithinCeilings ==
  LET times == limiter.request_times
      within(i, window) ==
        Cardinality({ j \in 1..Len(times) :
                        times[j] > times[i] - window /\ times[j] <= times[i] })
  IN \A i \in 1..Len(times) :
       /\ 10 * within(i, Seconds(1)) <= rate_limit.requests_per_second
       /\ rate_limit.requests_per_minute # 0 =>
            10 * within(i, Seconds(60)) <= rate_limit.requests_per_minute

\* C12: a request timestamp is never recorded while a blocked-until period
\* set by a 429 is in force.
C12_NoPermitWhileBlocked ==
  trace.permit => now >= limiter.retry_after_until

\* C13: with retrying enabled, the first request made on a resolver, when
\* it only ever receives 429 responses, has been sent exactly
\* max_429_retries times when the rate limit error is surfaced.
C13_SentMaxRetriesTimes ==
  (trace.handed.cause = "rate_limit" /\ trace.calls = 1
     /\ rate_limit.retry_on_429) =>
    trace.handed.sends = rate_limit.max_429_retries

C15_Non429ResetsRun ==
  [][/\ trace'.handed.cause = "response" => limiter'.consecutive_429s = 0
     /\ limiter'.consecutive_429s # limiter.consecutive_429s =>
          trace'.backoff.n # 0 \/ trace'.handed.cause = "response"
     /\ limiter.consecutive_429s = 0 =>
          /\ trace'.handed.cause = "rate_limit" => ~rate_limit.retry_on_429
          /\ trace'.backoff.n # 0 =>
               /\ trace'.backoff.n = 1
               /\ trace'.backoff.retry_after = 0 =>
                    trace'.backoff.wait = Seconds(60)
    ]_vars

\* a response that is not a 429 arrived for a request that had been retried
\* after a 429, and the counter is back at zero
C15_Witness ==
  /\ trace.handed.cause = "response"
  /\ trace.handed.sends = 2
  /\ limiter.consecutive_429s = 0

\* C16: the result resolve() returns when a 429 is not retried (retries
\* exhausted or disabled) has the status rate_limited.
C16_ExhaustedIsRateLimited ==
  trace.handed.cause = "rate_limit" =>
    trace.handed.result.status = "rate_limited"

\* C17: resolve() called with a query that ISBN.parse, the DOI validation
\* or ArXivID.parse rejects returns at once a non-success result with a
\* message, sends no request, and leaves the rate-limit state, the
\* counters and every coroutine inside the resolver as they were.
C17_MalformedQueryChangesNothing ==
  LET q == trace.called
      malformed ==
        /\ q.query # NoneStr
        /\ CASE q.input_type \in {"isbn_10", "isbn_13"} ->
                  ISBN_parse(Chars(q.query)) = ValueError
             [] q.input_type = "doi" -> DOI(Chars(q.query)) = ValueError
             [] q.input_type = "arxiv" ->
                  ArXivID_parse(Chars(q.query)) = ValueError
  IN malformed =>
       /\ trace.handed.cause = "validation"
       /\ trace.handed.sends = 0
       /\ ~ResultSuccess(trace.handed.result)
       /\ trace.handed.result.status \in ResolutionStatus
       /\ Truthy(trace.handed.result.error_message)
       /\ trace.before = <<limiter, stats, task>>

\* a malformed query was answered on a resolver that had already recorded
\* requests and failures
C17_Witness ==
  /\ trace.handed.cause = "validation"
  /\ trace.before = <<limiter, stats, task>>
  /\ limiter.request_times # <<>>
  /\ stats.failure_count > 0

\* C18: every result handed back by resolve() has one of the statuses
\* and, when it is not a success, a non-empty message.
C18_NonSuccessCarriesMessage ==
  trace.handed.cause # "none" =>
    /\ trace.handed.result.status \in ResolutionStatus
    /\ ~ResultSuccess(trace.handed.result) =>
         Truthy(trace.handed.result.error_message)

\* C19: reliability_score is the base reliability when nothing was
\* recorded, otherwise 0.4*base + 0.4*successes/(successes+failures)
\* + 0.2*min(1, 5000/max(average latency, 100)), and always within [0, 1].
C19_ReliabilityScoreFormula ==
  ret.op = "reliability_score" =>
    LET total == arg.success_count + arg.failure_count
        \* max(avgLatencyMs, 100) as the fraction floor_n / total
        floor_n == IF arg.total_latency_ms > 100 * total
                   THEN arg.total_latency_ms ELSE 100 * total
        \* min(1, 5000 / max(...)) as the fraction lf_n / lf_d
        lf_n == IF 5000 * total < floor_n THEN 5000 * total ELSE 1
        lf_d == IF 5000 * total < floor_n THEN floor_n ELSE 1
        \* the expected score in thousandths, as the fraction exp_n / exp_d
        exp_n == IF total = 0 THEN 10 * arg.base
                 ELSE 4 * arg.base * total * lf_d
                        + 400 * arg.success_count * lf_d + 200 * lf_n * total
        exp_d == IF total = 0 THEN 1 ELSE total * lf_d
        RECURSIVE gcd(_, _)
        gcd(a, b) == IF b = 0 THEN a ELSE gcd(b, a % b)
        g_ret == gcd(ret.val.num, ret.val.den)
        g_exp == gcd(exp_n, exp_d)
    IN /\ ret.val.den > 0
       /\ 0 <= ret.val.num /\ ret.val.num <= 1000 * ret.val.den
       \* the two fractions are equal: they agree in lowest terms
       /\ ret.val.num \div g_ret = exp_n \div g_exp
       /\ ret.val.den \div g_ret = exp_d \div g_exp

\* a resolver with a base of 1.0, only successes and an average latency
\* under five seconds scores exactly 1.0
C19_Witness ==
  /\ ret.op = "reliability_score"
  /\ arg.success_count > 0
  /\ arg.total_latency_ms > 100 * (arg.success_count + arg.failure_count)
  /\ arg.total_latency_ms < 5000 * (arg.success_count + arg.failure_count)
  /\ ret.val.num = 1000 * ret.val.den

\* C20: a valid ISBN-10 x, check digit X included, comes back unchanged
\* from ISBN.parse(x).to_isbn13().to_isbn10() and from
\* isbn_13_to_10(isbn_10_to_13(x)), and every value produced on the way
\* passes the checksum validation of its own format.
C20_IsbnRoundTrip ==
  (arg.op = "isbn" /\ ISBN10_PATTERN(arg.x) /\ validate_isbn10_checksum(arg.x)) =>
    /\ ret.op = "to_isbn13.to_isbn10" =>
         /\ ret.parsed = [value |-> arg.x, format |-> "isbn10"]
         /\ ret.isbn13 # ValueError
         /\ ret.isbn13.format = "isbn13"
         /\ ISBN13_PATTERN(ret.isbn13.value)
         /\ validate_isbn13_checksum(ret.isbn13.value)
         /\ ret.back = [value |-> arg.x, format |-> "isbn10"]
         /\ validate_isbn10_checksum(ret.back.value)
    /\ ret.op = "isbn_13_to_10" =>
         /\ ISBN13_PATTERN(ret.isbn13)
         /\ validate_isbn13_checksum(ret.isbn13)
         /\ ret.back = arg.x
         /\ validate_isbn10_checksum(ret.back)

\* the tests' 080442957X went through the value object and came back
C20_Witness ==
  /\ ret.op = "to_isbn13.to_isbn10"
  /\ arg.x[10] = "X"
  /\ validate_isbn10_checksum(arg.x)
  /\ ret.isbn13 # ValueError
  /\ ret.back = [value |-> arg.x, format |-> "isbn10"]

\* C21: for a valid ISBN-10 x, ISBN.parse(x) and ISBN.parse(x).to_isbn13()
\* have the same hash and compare equal, so that a set built from the two
\* holds one entry.
C21_Isbn10EquivalentToIsbn13 ==
  ret.op = "hash_eq" =>
    /\ ret.hash_a = ret.hash_b
    /\ ret.eq
    /\ Len(ret.set) = 1

\* C22: for a valid ISBN-13 v, ISBN.parse(v).to_isbn10() and
\* isbn_13_to_10(v) agree: with the prefix 979 both are None and nothing
\* is raised, with 978 both give the same ten-character ISBN-10.
C22_ToIsbn10Agree ==
  (ret.op = "to_isbn10" /\ ISBN13_PATTERN(arg.x)
     /\ validate_isbn13_checksum(arg.x)) =>
    IF SubSeq(arg.x, 1, 3) = <<"9", "7", "9">>
    THEN ret.object = NoISBN /\ ret.function = NoneValue
    ELSE /\ ret.object \notin {NoISBN, ValueError}
         /\ ret.object.format = "isbn10"
         /\ ret.function \notin {NoneValue, RaisedValueError}
         /\ ret.object.value = ret.function
         /\ Len(ret.function) = 10
         /\ ISBN10_PATTERN(ret.function)
         /\ validate_isbn10_checksum(ret.function)

\* the tests' 9780804429573 gave 080442957X both ways
C22_Witness ==
  /\ ret.op = "to_isbn10"
  /\ validate_isbn13_checksum(arg.x)
  /\ SubSeq(arg.x, 1, 3) = <<"9", "7", "8">>
  /\ ret.object \notin {NoISBN, ValueError}
  /\ ret.object.value = ret.function
  /\ ret.function[10] = "X"

\* C23 as stated: for every query, detect_all returns a list that contains
\* a title candidate no more confident than any other candidate, sorted by
\* descending confidence.
C23_TitleAlwaysLast ==
  ret.op = "detect_all" =>
    /\ \E i \in 1..Len(ret.val) :
         /\ ret.val[i].input_type = "title"
         /\ \A j \in 1..Len(ret.val) :
              ret.val[i].confidence <= ret.val[j].confidence
    /\ \A i \in 1..(Len(ret.val) - 1) :
         ret.val[i].confidence >= ret.val[i + 1].confidence

\* C23 amended: for a query that is empty or only whitespace detect_all
\* returns the empty list; for every other query the list contains a title
\* candidate no more confident than any other candidate and is sorted by
\* descending confidence.
C23_TitleLastUnlessBlank ==
  ret.op = "detect_all" =>
    IF arg.q.blank THEN ret.val = <<>>
    ELSE /\ \E i \in 1..Len(ret.val) :
              /\ ret.val[i].input_type = "title"
              /\ \A j \in 1..Len(ret.val) :
                   ret.val[i].confidence <= ret.val[j].confidence
         /\ \A i \in 1..(Len(ret.val) - 1) :
              ret.val[i].confidence >= ret.val[i + 1].confidence

\* a doi.org URL inside a citation: four candidates, the URL's ahead of the
\* DOI pattern's that was appended before it, the title last
C23_Witness ==
  /\ ret.op = "detect_all"
  /\ Len(ret.val) = 4
  /\ ret.val[1].confidence = 98
  /\ ret.val[2].confidence = 95
  /\ ret.val[3].input_type = "citation"
  /\ ret.val[4].input_type = "title"

\* C24: when a 429 ends the retrying, the limiter has counted it and set
\* blocked-until to now plus its backoff (so the period has begun: the
\* backoff is positive), and _make_request raises RateLimitError with that
\* backoff as retry_after.  On the first call made on a resolver the
\* counter then equals the number of times the request was sent.
C24_Final429Handled ==
  trace.handed.cause = "rate_limit" =>
    /\ limiter.retry_after_until > now
    /\ trace.calls = 1 => limiter.consecutive_429s = trace.handed.sends
    /\ trace.raised = [type |-> "RateLimitError",
                       retry_after |-> limiter.retry_after_until - now]

\* C25: blocked-until and the 429 counter are written only while no
\* other coroutine holds the limiter's lock: a step that handles a 429 or
\* resets the counter finds the lock free.
C25_StateWrittenUnderLock ==
  (trace.backoff.n # 0 \/ trace.handed.cause = "response") =>
    limiter.lock = 0

\* C26: every request sent, re-sends after a 429 included, is sent in the
\* step that records its timestamp at the end of its own acquire().
C26_EverySendAcquires ==
  trace.sent => trace.permit

\* C27: on the first call made on a resolver, when the result is handed
\* back, success_count + failure_count equals the number of times the
\* request was sent: one per completed exchange.
C27_OneCountPerExchange ==
  (trace.calls = 1
     /\ trace.handed.cause \in {"response", "rate_limit", "transport"}) =>
    stats.success_count + stats.failure_count = trace.handed.sends

\* C28: the consecutive-429 counter is never above max_429_retries; when a
\* request has exhausted its retries the counter stands at
\* max_429_retries; while it stands there a 429 is not retried; and the
\* counter goes down only by a response that is not a 429.
C28_CounterPersistsUpToMax ==
  [][/\ limiter'.consecutive_429s <= rate_limit.max_429_retries
     /\ (trace'.handed.cause = "rate_limit" /\ rate_limit.retry_on_429) =>
          limiter'.consecutive_429s = rate_limit.max_429_retries
     /\ limiter.consecutive_429s = rate_limit.max_429_retries =>
          trace'.backoff.n = 0
     /\ limiter'.consecutive_429s < limiter.consecutive_429s =>
          trace'.handed.cause = "response"
    ]_vars

\* the second request on a resolver whose first one exhausted the retries
\* got a 429 on its first attempt and failed without any retry
C28_Witness ==
  /\ rate_limit.retry_on_429
  /\ trace.calls = 2
  /\ trace.handed.cause = "rate_limit"
  /\ trace.handed.sends = 1
  /\ limiter.consecutive_429s = rate_limit.max_429_retries

\* C29: once a resolver's reliability_score is below
\* min_reliability_score, no step of any resolve() call invokes it and no
\* step changes its counters (so its score cannot rise).
C29_ExclusionAbsorbing ==
  [][\A i \in 1..NumResolvers :
       below_threshold(resolvers[i]) =>
         /\ resolvers'[i] = resolvers[i]
         /\ \A c \in Tasks :
              resolvers[i].source_name \in task'[c].awaiting =>
                resolvers[i].source_name \in task[c].awaiting
    ]_vars

\* C29 (amended): once a resolver's reliability_score is below
\* min_reliability_score and no resolve() call that filtered earlier is
\* awaiting it or has it still to invoke, no step invokes it, queues it or
\* changes its counters: every later call filters it out.
C29_ExcludedOnceNotPending ==
  [][\A i \in 1..NumResolvers :
       (below_threshold(resolvers[i]) /\ ~pending(resolvers[i].source_name)) =>
         /\ resolvers'[i] = resolvers[i]
         /\ below_threshold(resolvers'[i])
         /\ ~pending(resolvers[i].source_name)'
    ]_vars

\* a call made after a resolver has failed its way below the threshold is
\* in progress, awaiting another resolver, with that one left out
C29_Witness ==
  \E i \in 1..NumResolvers, c \in Tasks :
    /\ below_threshold(resolvers[i])
    /\ resolvers[i].failure_count > 0
    /\ ~pending(resolvers[i].source_name)
    /\ task[c].pc = "running"
    /\ task[c].awaiting # {}
    /\ resolvers[i].source_name \in task[c].left_out

\* C30: the semaphore's free permits and the lock always account for
\* exactly the coroutines inside acquire() that hold them (so a cancelled
\* coroutine has released both), and every coroutine inside acquire()
\* eventually leaves it: with its permit, the request sent, unless it was
\* cancelled.
C30_AcquireEndsAndReleases ==
  /\ [](/\ limiter.permits + Cardinality({k \in Tasks :
            task[k].pc \in {"lock", "blocked", "window"}})
          = rate_limit.burst_size
        /\ \A k \in Tasks :
             limiter.lock = k <=> task[k].pc \in {"blocked", "window"})
  /\ \A k \in Tasks :
       (task[k].pc \in InAcquire) ~> (task[k].pc \in {"request", "idle"})

\* a coroutine waits for the semaphore or the lock while its holder
\* sleeps out a blocked-until period
C30_Witness ==
  \E j, k \in Tasks :
    /\ task[j].pc = "blocked"
    /\ limiter.retry_after_until > now
    /\ task[k].pc \in {"acquire", "lock"}


====
